---------------------------- MODULE Spec2Model ----------------------------
(***************************************************************************)
(* setfarm workflow engine: one run of a workflow (steps, stories, run     *)
(* meta) under the claim/complete/fail protocol and the medic watchdog.    *)
(*                                                                         *)
(* The medic (checks + remediate + runMedicCheck) is translated from       *)
(* src/src/installer/uninstall.ts.  The claim/complete/fail engine is not  *)
(* part of the sources at hand and is modelled from spec.md sections 3-4.  *)
(*                                                                         *)
(* Time: every row carries the age (now - updated_at, in ms) of its        *)
(* updated_at stamp; a clock step lets ShortTick or LongTick pass.  An age *)
(* stops growing once it exceeds every threshold it is compared with, and  *)
(* is kept only for the rows whose updated_at the medic reads.             *)
(*                                                                         *)
(* A medic pass is MedicCheck (runSyncChecks), one Medic<Action> step per  *)
(* finding (remediate; its writes are one step, spec.md 4.1) and           *)
(* MedicFinish.  Other processes act between these steps: runMedicCheck    *)
(* awaits the cron gateway between the checks and the remediations.        *)
(*                                                                         *)
(* Specifications:                                                         *)
(*   Spec         workflows with a loop step, one medic pass at a time,    *)
(*                clock steps of LongTick                                  *)
(*   SpecSteps    a workflow of single steps, two medic processes, clock   *)
(*                steps of ShortTick                                       *)
(*   SpecOverlap  two medic processes on a run failed by a story           *)
(*   SpecLive     Spec with unbounded time, under fairness                 *)
(*   SpecResume   the medic on a failed verify_each run                    *)
(*   SpecStall    SpecSteps' workflow with checkStalledRuns, one medic     *)
(*   SpecCrons    the processes that call the cron gateway                 *)
(*                (src/src/installer/agent-cron.ts), at every await        *)
(*   SpecSetup    one call of setupAgentCrons for a drawn list of agents   *)
(*   SpecBreaker  checkStalledWorkflowCrons, recreate_crons and the rows of*)
(*                medic_checks, in clock steps of BreakerTick              *)
(*   SpecPrune    the retention of medic_checks over more than 500 passes  *)
(*   SpecAtomic   SpecSteps with the writes of reset_step one by one       *)
(*   SpecLock     the invocations of src/scripts/run-safe.sh               *)
(*   SpecClaim    claim calls in progress together (spec.md 4.2)           *)
(*   SpecInstall  uninstallWorkflow on a drawn agent list                  *)
(*                (src/src/installer/uninstall.ts, paths.ts)               *)
(*   SpecMerged   reset_story with its wait for checkMergedPR, two medic   *)
(*                processes                                                *)
(*   SpecChecks   the queries of runSyncChecks one by one, in clock steps  *)
(*                of 1 ms                                                  *)
(*   SpecPrefix   removeAgentCrons and teardownWorkflowCronsIfIdle with    *)
(*                job names as texts                                       *)
(*   SpecRescue   one medic pass with its cron findings on a failed run    *)
(*                whose cron jobs are left, the agents acting in between   *)
(***************************************************************************)
EXTENDS Integers, Sequences, FiniteSets, TLC

\* ------------------------------------------------------------- bounds ----
MaxStories == 2
\* the model follows a run for MaxTicks clock steps
MaxTicks == 5
\* the clock advances in steps of TickMinutes (ShortTick) or twice that
TickMinutes == 20
\* retry budget of a step and of a story (spec.md 4.2; the default is 3)
MaxRetries == 2
\* the scheduler gives out at most MaxJobs ids
MaxJobs == 5
\* at most MaxActive runs of a workflow are running at once
MaxActive == 2

ShortTick == TickMinutes * 60 * 1000
LongTick == 2 * ShortTick

\* --------------------------------------------------- program constants ----
RESUME_MAX_ATTEMPTS == 3
RESUME_COOLDOWN_MS == 10 * 60 * 1000
RESUME_SETTLE_MS == 2 * 60 * 1000
CLAIMED_STUCK_THRESHOLD_MS == 10 * 60 * 1000
STORY_STUCK_THRESHOLD_MS == 30 * 60 * 1000
MAX_STEP_ABANDONS == 5
MAX_STORY_ABANDONS == 5
DEFAULT_AGENT_TIMEOUT_SECONDS == 30 * 60

\* getMaxRoleTimeoutSeconds() of installer/install.js: the largest role
\* timeout, which is the cron default when no role overrides it.
getMaxRoleTimeoutSeconds == DEFAULT_AGENT_TIMEOUT_SECONDS
MAX_ROLE_TIMEOUT_MS == (getMaxRoleTimeoutSeconds + 5 * 60) * 1000
STALL_THRESHOLD_MS == MAX_ROLE_TIMEOUT_MS * 2

\* loop worker count of the engine (spec.md 4.4)
Workers == 3

PARALLEL_AGENTS == { "developer", "verifier" }
PARALLEL_COUNT == 3
\* the stagger of the cron anchors
STAGGER_MS == 40000

NULL == 0
NEVER == 0 - 1

\* ---------------------------------------------------------- workflows ----
NoLoopConfig == [present |-> FALSE, verifyEach |-> FALSE, verifyStep |-> ""]

PlanStep == [step_id |-> "plan", type |-> "single", loop_config |-> NoLoopConfig]
VerifyStep == [step_id |-> "verify", type |-> "single", loop_config |-> NoLoopConfig]
LoopStep(ve, vs) ==
  [step_id |-> "implement", type |-> "loop",
   loop_config |-> [present |-> TRUE, verifyEach |-> ve, verifyStep |-> vs]]

\* plan -> implement (loop, stories verified on completion)
WorkflowPlain == << PlanStep, LoopStep(FALSE, "") >>
\* plan -> implement (loop, verify_each with verify_step "verify") -> verify
WorkflowVerifyEach == << PlanStep, LoopStep(TRUE, "verify"), VerifyStep >>
LoopWorkflows == { WorkflowPlain, WorkflowVerifyEach }
\* plan -> verify, no loop step
WorkflowSingles == << PlanStep, VerifyStep >>

MedicIds == { "m1", "m2" }

\* the workflows whose crons are followed, and the agents of each
CronWorkflows == { "wf1" }
Agents == << "planner", "developer" >>
CronProcs == { "p1", "p2" }
\* the agent ids workflows are made of
AgentIds == { "planner", "developer", "verifier", "developer-2" }
\* a workflow has at most MaxAgents agents
MaxAgents == 3

VARIABLES wf, run, steps, stories, medic, clock, jobs, nextId, active, procs,
          medic_checks, invocations, calls, config, dirs

\* the run, its rows and the medic passes over them
runVars == << wf, run, steps, stories, medic, clock >>
\* the scheduler's jobs and the processes that call the cron gateway
cronVars == << jobs, nextId, active, procs >>

\* the rows of the table medic_checks, in the order of their insertion
logVars == << medic_checks >>

\* the invocations of scripts/run-safe.sh and the claim calls of the agents
shellVars == << invocations, calls >>

\* the agent list of openclaw.json and the directories on disk
installVars == << config, dirs >>

vars == << wf, run, steps, stories, medic, clock, jobs, nextId, active, procs,
          medic_checks, invocations, calls, config, dirs >>

StepIds == 1 .. Len(steps)
StoryIds == 1 .. Len(stories)

\* ------------------------------------------------------------ helpers ----
Min(S) == CHOOSE x \in S : \A y \in S : x <= y

\* the indices of 1..n that satisfy Test, in ascending order
RECURSIVE Ordered(_, _)
Ordered(S, acc) ==
  IF S = {} THEN acc
  ELSE LET x == Min(S) IN Ordered(S \ {x}, Append(acc, x))

Bump(age, cap, d) == IF age > cap THEN age ELSE age + d

IsLoop(s) == wf[s].type = "loop"
LoopIds == { s \in StepIds : IsLoop(s) }

ActiveStatuses == { "waiting", "pending", "running" }

\* ------------------------------------------------------- cron state ---
\* jobs: the jobs of the scheduler, each with the id the scheduler gave it
\* and its name; a name setfarm/<wf>/<role> is [wf, role, n = 1], a shard
\* name setfarm/<wf>/<role>-<n> is [wf, role, n].  nextId: the next id the
\* scheduler gives out.  active: the number of running runs per workflow.
\* procs: the processes that use the cron gateway, each at an await; of a
\* process in a medic pass, clean tells that every gateway call of the pass
\* succeeded, seen are the workflows restoreActiveRunCrons found with a
\* running run, skipped those whose spec it could not load, and quiet those
\* that, since the pass began, have had no running run and no job created
\* by another process.
CronName(w, a, n) == [wf |-> w, role |-> a, n |-> n]

\* the name as the string setupAgentCrons builds
JobName(c) ==
  "setfarm/" \o c.wf \o "/" \o c.role \o (IF c.n = 1 THEN "" ELSE "-" \o ToString(c.n))

\* j.name.startsWith(`setfarm/${w}/`)
HasPrefix(j, w) == j.name.wf = w

\* the run-safe.sh processes; of each its place in the script, its first
\* argument as the sequence of its characters, and its exit code
Invocations == { "i1", "i2" }
NotStarted == [pc |-> "none", repo_path |-> << >>, exit_code |-> NEVER]

\* the agent processes that call claim; of each its place in the call, the
\* role it claims for, and the response not yet delivered
Claimers == { "a1", "a2", "a3" }
Roles == { "planner", "developer" }
\* the response NO_WORK: no unit
NO_WORK == [stepId |-> NULL, storyId |-> NULL]
NoCall == [pc |-> "none", role |-> "", response |-> NO_WORK]

ShellIdle ==
  /\ invocations = [i \in Invocations |-> NotStarted]
  /\ calls = [c \in Claimers |-> NoCall]

\* no workflow installed
InstallIdle ==
  /\ config = << >>
  /\ dirs = {}

IdleProc ==
  [pc |-> "idle", role |-> "none", phase |-> "none", wf |-> "", todo |-> << >>,
   rest |-> << >>, clean |-> TRUE, seen |-> {}, quiet |-> {}, skipped |-> {}]

CronIdle ==
  /\ jobs = {}
  /\ nextId = 1
  /\ active = [w \in CronWorkflows |-> 0]
  /\ procs = [p \in CronProcs |-> IdleProc]

\* --------------------------------------------------------------- init ----
NewStep(i) ==
  [status |-> IF i = 1 THEN "pending" ELSE "waiting",
   retry_count |-> 0, abandoned_count |-> 0, current_story_id |-> NULL, age |-> 0]

NewStory ==
  [status |-> "pending", retry_count |-> 0, abandoned_count |-> 0, age |-> 0]

\* a medic process between passes; in a pass, findings are the findings
\* the loop of runMedicCheck has yet to visit, details those it has visited,
\* and story is the abandoned_count that reset_story has read of its story
\* while it waits for checkMergedPR (NEVER otherwise)
IdlePass ==
  [pc |-> "idle", findings |-> << >>, details |-> << >>, actionsTaken |-> 0,
   story |-> NEVER]

InitFor(W) ==
  /\ wf \in W
  /\ run = [status |-> "running", age |-> 0, medic_resume_count |-> 0,
            medic_last_resume |-> NEVER]
  /\ steps = [i \in 1 .. Len(wf) |-> NewStep(i)]
  /\ stories = << >>
  /\ medic = [m \in MedicIds |-> IdlePass]
  /\ clock = 0
  /\ medic_checks = << >>
  /\ ShellIdle
  /\ InstallIdle
  /\ CronIdle


\* ------------------------------------------------- engine (spec.md 4) ----
AgentTimeoutMs == DEFAULT_AGENT_TIMEOUT_SECONDS * 1000

Touch(r, st) == [r EXCEPT !.status = st, !.age = 0]

\* Step Engine advancement after step s reached done: the next step by
\* step_index becomes pending, or the run is done when there is none.  When
\* the next step is a loop step that becomes pending for the first time the
\* Loop Engine materialises n story rows in pending.
Advance(done, s, n) ==
  IF s = Len(steps)
  THEN /\ steps' = done
       /\ run' = Touch(run, "done")
       /\ UNCHANGED stories
  ELSE /\ steps' = [done EXCEPT ![s + 1] = Touch(@, "pending")]
       /\ stories' = IF IsLoop(s + 1) /\ stories = << >>
                     THEN [i \in 1 .. n |-> NewStory]
                     ELSE stories
       /\ UNCHANGED run

\* claim(agent_id) returning a single step
AgentClaimStep(s) ==
  /\ run.status = "running"
  /\ ~IsLoop(s)
  /\ steps[s].status = "pending"
  /\ steps' = [steps EXCEPT ![s] = Touch(@, "running")]
  /\ UNCHANGED << installVars, cronVars, shellVars, logVars, wf, run, stories, medic, clock >>

\* complete(step) with valid output
AgentCompleteStep(s, n) ==
  /\ run.status = "running"
  /\ steps[s].status = "running"
  /\ steps[s].age <= AgentTimeoutMs
  /\ Advance([steps EXCEPT ![s] = Touch(@, "done")], s, n)
  /\ UNCHANGED << installVars, cronVars, shellVars, logVars, wf, medic, clock >>

\* fail(step, reason), or complete(step) with missing outputs
AgentFailStep(s) ==
  /\ run.status = "running"
  /\ steps[s].status = "running"
  /\ steps[s].age <= AgentTimeoutMs
  /\ LET rc == steps[s].retry_count + 1 IN
     IF rc < MaxRetries
     THEN /\ steps' = [steps EXCEPT ![s] = [Touch(@, "pending") EXCEPT !.retry_count = rc]]
          /\ UNCHANGED run
     ELSE /\ steps' = [steps EXCEPT ![s] = [Touch(@, "failed") EXCEPT !.retry_count = rc]]
          /\ run' = Touch(run, "failed")
  /\ UNCHANGED << installVars, cronVars, shellVars, logVars, wf, stories, medic, clock >>

RunningStories == { t \in StoryIds : stories[t].status = "running" }

\* claim(agent_id) returning a story of the pending loop step L
AgentClaimStory(L, t) ==
  /\ run.status = "running"
  /\ IsLoop(L)
  /\ steps[L].status = "pending"
  /\ stories[t].status = "pending"
  /\ Cardinality(RunningStories) < Workers
  /\ stories' = [stories EXCEPT ![t] = Touch(@, "running")]
  /\ steps' = [steps EXCEPT ![L].current_story_id = t]
  /\ UNCHANGED << installVars, cronVars, shellVars, logVars, wf, run, medic, clock >>

ReleaseStory(t) ==
  [s \in StepIds |->
     IF IsLoop(s) /\ steps[s].current_story_id = t
     THEN [steps[s] EXCEPT !.current_story_id = NULL]
     ELSE steps[s]]

\* complete(story): the story is verified (with verify_each, by the
\* verifier's completion that closes the story's cycle).  A completion for
\* a story of a run that is no longer running is accepted and changes
\* nothing.
AgentCompleteStory(L, t) ==
  /\ run.status = "running"
  /\ IsLoop(L)
  /\ stories[t].status = "running"
  /\ stories[t].age <= AgentTimeoutMs
  /\ stories' = [stories EXCEPT ![t] = Touch(@, "verified")]
  /\ steps' = ReleaseStory(t)
  /\ UNCHANGED << installVars, cronVars, shellVars, logVars, wf, run, medic, clock >>

\* fail(story): the story's retry_count governs the budget; an exhausted
\* budget fails the story, its loop step and the run.
AgentFailStory(L, t) ==
  /\ run.status = "running"
  /\ IsLoop(L)
  /\ stories[t].status = "running"
  /\ stories[t].age <= AgentTimeoutMs
  /\ LET rc == stories[t].retry_count + 1 IN
     IF rc < MaxRetries
     THEN /\ stories' = [stories EXCEPT ![t] =
               [Touch(@, "pending") EXCEPT !.retry_count = rc]]
          /\ steps' = ReleaseStory(t)
          /\ UNCHANGED run
     ELSE /\ stories' = [stories EXCEPT ![t] =
               [Touch(@, "failed") EXCEPT !.retry_count = rc]]
          /\ steps' = [ReleaseStory(t) EXCEPT ![L] = Touch(@, "failed")]
          /\ run' = Touch(run, "failed")
  /\ UNCHANGED << installVars, cronVars, shellVars, logVars, wf, medic, clock >>

LoopFinished == \A t \in StoryIds : stories[t].status \in { "verified", "skipped" }

\* Loop completion: every story is verified or skipped
LoopCompletion(L) ==
  /\ run.status = "running"
  /\ IsLoop(L)
  /\ steps[L].status = "pending"
  /\ LoopFinished
  /\ Advance([steps EXCEPT ![L] = Touch(@, "done")], L, 0)
  /\ UNCHANGED << installVars, cronVars, shellVars, logVars, wf, medic, clock >>

\* ----------------------------------------------------------------- time ---
\* updated_at is read only for rows that are running (checkStuckSteps,
\* checkClaimedButStuck, checkOrphanedStories) and for a failed run
\* (checkFailedRunsForResume): only those ages advance.
Aged(r, on, cap, d) == IF r.status = on THEN [r EXCEPT !.age = Bump(@, cap, d)] ELSE r

Elapse(d) ==
  /\ run' = [Aged(run, "failed", RESUME_SETTLE_MS, d) EXCEPT
       !.medic_last_resume = IF @ = NEVER THEN NEVER ELSE Bump(@, RESUME_COOLDOWN_MS, d)]
  /\ steps' = [s \in StepIds |-> Aged(steps[s], "running", MAX_ROLE_TIMEOUT_MS, d)]
  /\ stories' = [t \in StoryIds |-> Aged(stories[t], "running", STORY_STUCK_THRESHOLD_MS, d)]
  /\ UNCHANGED << installVars, cronVars, shellVars, logVars, wf, medic >>

Tick(d) ==
  /\ clock < MaxTicks
  /\ clock' = clock + 1
  /\ Elapse(d)

\* checkStalledRuns reads updated_at of every step, whatever its status:
\* where it is checked, the age of every step advances.
ElapseAll(d) ==
  /\ run' = [Aged(run, "failed", RESUME_SETTLE_MS, d) EXCEPT
       !.medic_last_resume = IF @ = NEVER THEN NEVER ELSE Bump(@, RESUME_COOLDOWN_MS, d)]
  /\ steps' = [s \in StepIds |-> [steps[s] EXCEPT !.age = Bump(@, STALL_THRESHOLD_MS, d)]]
  /\ stories' = [t \in StoryIds |-> Aged(stories[t], "running", STORY_STUCK_THRESHOLD_MS, d)]
  /\ UNCHANGED << installVars, cronVars, shellVars, logVars, wf, medic >>

TickAll(d) ==
  /\ clock < MaxTicks
  /\ clock' = clock + 1
  /\ ElapseAll(d)

\* ------------------------------------------------------ medic checks ----
Finding(check, action, stepId, storyId) ==
  [check |-> check, action |-> action, stepId |-> stepId, storyId |-> storyId,
   remediated |-> FALSE]

StepFindings(check, S) ==
  LET ord == Ordered(S, << >>) IN
  [i \in 1 .. Len(ord) |-> Finding(check, "reset_step", ord[i], NULL)]

checkStuckSteps ==
  StepFindings("stuck_steps",
    { s \in StepIds : /\ steps[s].status = "running"
                      /\ run.status = "running"
                      /\ steps[s].age > MAX_ROLE_TIMEOUT_MS })

checkClaimedButStuck ==
  StepFindings("claimed_but_stuck",
    { s \in StepIds : /\ steps[s].status = "running"
                      /\ run.status = "running"
                      /\ steps[s].age > CLAIMED_STUCK_THRESHOLD_MS
                      /\ steps[s].age < MAX_ROLE_TIMEOUT_MS })

checkDeadRuns ==
  IF /\ run.status = "running"
     /\ ~ \E s \in StepIds : steps[s].status \in ActiveStatuses
  THEN << Finding("dead_runs", "fail_run", NULL, NULL) >>
  ELSE << >>

checkFailedRunsForResume ==
  LET resumeCount == run.medic_resume_count
      cooldownOk == run.medic_last_resume = NEVER
                      \/ run.medic_last_resume > RESUME_COOLDOWN_MS
      updatedAge == run.age
  IN IF /\ run.status = "failed"
        /\ \E t \in StoryIds : stories[t].status \in { "pending", "running" }
        /\ ~ (resumeCount >= RESUME_MAX_ATTEMPTS)
        /\ cooldownOk
        /\ ~ (updatedAge < RESUME_SETTLE_MS)
     THEN << Finding("failed_run_resumable", "resume_run", NULL, NULL) >>
     ELSE << >>

checkOrphanedStories ==
  LET ord == Ordered({ t \in StoryIds : /\ stories[t].status = "running"
                                        /\ run.status = "running"
                                        /\ stories[t].age > STORY_STUCK_THRESHOLD_MS },
                     << >>)
  IN [i \in 1 .. Len(ord) |-> Finding("orphaned_stories", "reset_story", NULL, ord[i])]

\* the time since the latest updated_at of the steps of the run
LastStepUpdate == Min({ steps[s].age : s \in StepIds })

checkStalledRuns ==
  IF run.status = "running" /\ LastStepUpdate > STALL_THRESHOLD_MS
  THEN << Finding("stalled_runs", "none", NULL, NULL) >>
  ELSE << >>

\* checkStalledRuns, checkStalledWorkflowCrons and checkOrphanedCrons are
\* left out: their findings carry the actions none, recreate_crons and
\* teardown_crons, which write no run, step or story row.
runSyncChecks ==
  checkOrphanedStories \o checkClaimedButStuck \o checkStuckSteps
    \o checkDeadRuns \o checkFailedRunsForResume

\* runSyncChecks with checkStalledRuns in its place
runSyncChecksStalled ==
  checkOrphanedStories \o checkClaimedButStuck \o checkStuckSteps
    \o checkStalledRuns \o checkDeadRuns \o checkFailedRunsForResume

\* ------------------------------------------------- medic remediation ----
\* Each Remediate* is remediate(finding) for one action kind; ok is the
\* value it returns.

\* reset_step that also charges the reset to the retry budget
RemediateResetStepRetry(f, ok) ==
  LET newCount == steps[f.stepId].abandoned_count + 1 IN
  /\ ok = TRUE
  /\ IF newCount >= MAX_STEP_ABANDONS
     THEN /\ steps' = [steps EXCEPT ![f.stepId] =
                 [Touch(@, "failed") EXCEPT !.abandoned_count = newCount]]
          /\ run' = Touch(run, "failed")
     ELSE /\ steps' = [steps EXCEPT ![f.stepId] =
                 [Touch(@, "pending") EXCEPT !.abandoned_count = newCount,
                                             !.retry_count = @ + 1]]
          /\ UNCHANGED run
  /\ UNCHANGED stories

\* reset_step that fails the step one abandon early
RemediateResetStepEarly(f, ok) ==
  LET newCount == steps[f.stepId].abandoned_count + 1 IN
  /\ ok = TRUE
  /\ IF newCount >= MAX_STEP_ABANDONS - 1
     THEN /\ steps' = [steps EXCEPT ![f.stepId] =
                 [Touch(@, "failed") EXCEPT !.abandoned_count = newCount]]
          /\ run' = Touch(run, "failed")
     ELSE /\ steps' = [steps EXCEPT ![f.stepId] =
                 [Touch(@, "pending") EXCEPT !.abandoned_count = newCount]]
          /\ UNCHANGED run
  /\ UNCHANGED stories

\* reset_step with the abandon limit tested as newCount > 5
RemediateResetStepLate(f, ok) ==
  LET newCount == steps[f.stepId].abandoned_count + 1 IN
  /\ ok = TRUE
  /\ IF newCount > MAX_STEP_ABANDONS
     THEN /\ steps' = [steps EXCEPT ![f.stepId] =
                 [Touch(@, "failed") EXCEPT !.abandoned_count = newCount]]
          /\ run' = Touch(run, "failed")
     ELSE /\ steps' = [steps EXCEPT ![f.stepId] =
                 [Touch(@, "pending") EXCEPT !.abandoned_count = newCount]]
          /\ UNCHANGED run
  /\ UNCHANGED stories

RemediateResetStep(f, ok) ==
  LET newCount == steps[f.stepId].abandoned_count + 1 IN
  /\ ok = TRUE
  /\ IF newCount >= MAX_STEP_ABANDONS
     THEN /\ steps' = [steps EXCEPT ![f.stepId] =
                 [Touch(@, "failed") EXCEPT !.abandoned_count = newCount]]
          /\ run' = Touch(run, "failed")
     ELSE /\ steps' = [steps EXCEPT ![f.stepId] =
                 [Touch(@, "pending") EXCEPT !.abandoned_count = newCount]]
          /\ UNCHANGED run
  /\ UNCHANGED stories

\* fail_run without the re-check of the run's status
RemediateFailRunBlind(f, ok) ==
  /\ ok = TRUE
  /\ run' = Touch(run, "failed")
  /\ steps' = [s \in StepIds |->
       IF steps[s].status \in ActiveStatuses THEN Touch(steps[s], "failed")
       ELSE steps[s]]
  /\ UNCHANGED stories

RemediateFailRun(f, ok) ==
  IF run.status # "running"
  THEN ok = FALSE /\ UNCHANGED << run, steps, stories >>
  ELSE /\ ok = TRUE
       /\ run' = Touch(run, "failed")
       /\ steps' = [s \in StepIds |->
            IF steps[s].status \in ActiveStatuses THEN Touch(steps[s], "failed")
            ELSE steps[s]]
       /\ UNCHANGED stories

FailedSteps == { s \in StepIds : steps[s].status = "failed" }
FailedStories == { t \in StoryIds : stories[t].status = "failed" }

ResetForResume(r, st) ==
  [Touch(r, st) EXCEPT !.current_story_id = NULL, !.retry_count = 0]

\* resume_run that clears the retry_count of every step of the run
ResumeWritesAll(fs, ls) ==
  IF ls # NULL /\ wf[ls].loop_config.present
  THEN IF wf[ls].loop_config.verifyEach /\ wf[ls].loop_config.verifyStep = wf[fs].step_id
       THEN /\ steps' = [[[s \in StepIds |-> [steps[s] EXCEPT !.retry_count = 0]]
                            EXCEPT ![ls] = ResetForResume(@, "pending")]
                            EXCEPT ![fs] = ResetForResume(@, "waiting")]
            /\ stories' = [t \in StoryIds |->
                 IF stories[t].status = "failed" THEN Touch(stories[t], "pending")
                 ELSE stories[t]]
       ELSE UNCHANGED << steps, stories >>
  ELSE /\ steps' = [[s \in StepIds |-> [steps[s] EXCEPT !.retry_count = 0]]
                       EXCEPT ![fs] = ResetForResume(@, "pending")]
       /\ stories' = [t \in StoryIds |->
            IF wf[fs].type = "loop" /\ FailedStories # {} /\ t = Min(FailedStories)
            THEN Touch(stories[t], "pending") ELSE stories[t]]

\* the steps and stories written by resume_run for the failed step fs and
\* the loop step ls found by the second query (NULL when it finds none)
ResumeWrites(fs, ls) ==
  IF ls # NULL /\ wf[ls].loop_config.present
  THEN IF wf[ls].loop_config.verifyEach /\ wf[ls].loop_config.verifyStep = wf[fs].step_id
       THEN /\ steps' = [[steps EXCEPT ![ls] = ResetForResume(@, "pending")]
                            EXCEPT ![fs] = ResetForResume(@, "waiting")]
            /\ stories' = [t \in StoryIds |->
                 IF stories[t].status = "failed" THEN Touch(stories[t], "pending")
                 ELSE stories[t]]
       ELSE UNCHANGED << steps, stories >>
  ELSE IF wf[fs].type = "loop"
       THEN /\ stories' = [t \in StoryIds |->
                 IF FailedStories # {} /\ t = Min(FailedStories)
                 THEN Touch(stories[t], "pending") ELSE stories[t]]
            /\ steps' = [[s \in StepIds |->
                           IF IsLoop(s) THEN [steps[s] EXCEPT !.retry_count = 0]
                           ELSE steps[s]]
                            EXCEPT ![fs] = ResetForResume(@, "pending")]
       ELSE /\ steps' = [steps EXCEPT ![fs] = ResetForResume(@, "pending")]
            /\ UNCHANGED stories

RemediateResumeRun(f, ok) ==
  IF run.status # "failed" \/ FailedSteps = {}
  THEN ok = FALSE /\ UNCHANGED << run, steps, stories >>
  ELSE LET failedStep == Min(FailedSteps)
           loopSteps == { s \in StepIds : IsLoop(s) /\ steps[s].status \in { "running", "failed" } }
       IN /\ ok = TRUE
          /\ \E ls \in (IF loopSteps = {} THEN { NULL } ELSE loopSteps) :
               ResumeWrites(failedStep, ls)
          /\ run' = [run EXCEPT !.status = "running", !.age = 0,
                                !.medic_resume_count = @ + 1,
                                !.medic_last_resume = 0]

\* reset_story with the outcome for abandoned_count k -> (status, count)
\* left open: the variants below differ from reset_story in one branch
ResetStoryWith(f, ok, pr, skipAt, skipCount) ==
  IF stories[f.storyId].status # "running"
  THEN ok = FALSE /\ pr = FALSE /\ UNCHANGED << run, steps, stories >>
  ELSE LET newCount == stories[f.storyId].abandoned_count + 1 IN
       /\ ok = TRUE
       /\ IF pr
          THEN /\ stories' = [stories EXCEPT ![f.storyId] =
                      [Touch(@, "verified") EXCEPT !.abandoned_count = 0]]
               /\ steps' = ReleaseStory(f.storyId)
          ELSE IF newCount >= skipAt
          THEN /\ stories' = [stories EXCEPT ![f.storyId] =
                      [Touch(@, "skipped") EXCEPT !.abandoned_count = skipCount]]
               /\ UNCHANGED steps
          ELSE /\ stories' = [stories EXCEPT ![f.storyId] =
                      [Touch(@, "pending") EXCEPT !.abandoned_count = newCount]]
               /\ steps' = ReleaseStory(f.storyId)
       /\ UNCHANGED run

\* reset_story that marks the story failed, not skipped, at the limit
RemediateResetStoryFail(f, ok, pr) ==
  IF stories[f.storyId].status # "running"
  THEN ok = FALSE /\ pr = FALSE /\ UNCHANGED << run, steps, stories >>
  ELSE LET newCount == stories[f.storyId].abandoned_count + 1 IN
       /\ ok = TRUE
       /\ IF pr
          THEN /\ stories' = [stories EXCEPT ![f.storyId] =
                      [Touch(@, "verified") EXCEPT !.abandoned_count = 0]]
               /\ steps' = ReleaseStory(f.storyId)
          ELSE IF newCount >= MAX_STORY_ABANDONS
          THEN /\ stories' = [stories EXCEPT ![f.storyId] =
                      [Touch(@, "failed") EXCEPT !.abandoned_count = newCount]]
               /\ UNCHANGED steps
          ELSE /\ stories' = [stories EXCEPT ![f.storyId] =
                      [Touch(@, "pending") EXCEPT !.abandoned_count = newCount]]
               /\ steps' = ReleaseStory(f.storyId)
       /\ UNCHANGED run

\* reset_story that skips one abandon late
RemediateResetStoryLate(f, ok, pr) ==
  ResetStoryWith(f, ok, pr, MAX_STORY_ABANDONS + 1, stories[f.storyId].abandoned_count + 1)

\* reset_story that clears abandoned_count when it skips the story
RemediateResetStoryZero(f, ok, pr) ==
  ResetStoryWith(f, ok, pr, MAX_STORY_ABANDONS, 0)

\* pr: checkMergedPR found a merged pull request for the story
RemediateResetStory(f, ok, pr) ==
  IF stories[f.storyId].status # "running"
  THEN ok = FALSE /\ pr = FALSE /\ UNCHANGED << run, steps, stories >>
  ELSE LET newCount == stories[f.storyId].abandoned_count + 1 IN
       /\ ok = TRUE
       /\ IF pr
          THEN /\ stories' = [stories EXCEPT ![f.storyId] =
                      [Touch(@, "verified") EXCEPT !.abandoned_count = 0]]
               /\ steps' = ReleaseStory(f.storyId)
          ELSE IF newCount >= MAX_STORY_ABANDONS
          THEN /\ stories' = [stories EXCEPT ![f.storyId] =
                      [Touch(@, "skipped") EXCEPT !.abandoned_count = newCount]]
               /\ UNCHANGED steps
          ELSE /\ stories' = [stories EXCEPT ![f.storyId] =
                      [Touch(@, "pending") EXCEPT !.abandoned_count = newCount]]
               /\ steps' = ReleaseStory(f.storyId)
       /\ UNCHANGED run

\* ------------------------------------------------------ runMedicCheck ----
HasFinding(m, action) ==
  /\ medic[m].pc = "remediate"
  /\ medic[m].findings # << >>
  /\ Head(medic[m].findings).action = action

\* the loop of runMedicCheck counting an action whatever remediate returned
PopCounted(m, ok) ==
  medic' = [medic EXCEPT ![m] =
    [@ EXCEPT !.findings = Tail(@),
              !.details = Append(@, [Head(medic[m].findings) EXCEPT !.remediated = ok]),
              !.actionsTaken = @ + 1]]

\* the loop of runMedicCheck moves on after remediate returned ok
Pop(m, ok) ==
  medic' = [medic EXCEPT ![m] =
    [@ EXCEPT !.findings = Tail(@),
              !.details = Append(@, [Head(medic[m].findings) EXCEPT !.remediated = ok]),
              !.actionsTaken = IF ok THEN @ + 1 ELSE @]]

MedicCheck(m) ==
  /\ medic[m].pc = "idle"
  /\ medic' = [medic EXCEPT ![m] =
       [IdlePass EXCEPT !.pc = "remediate", !.findings = runSyncChecks]]
  /\ UNCHANGED << installVars, cronVars, shellVars, logVars, wf, run, steps, stories, clock >>

MedicCheckStalled(m) ==
  /\ medic[m].pc = "idle"
  /\ medic' = [medic EXCEPT ![m] =
       [IdlePass EXCEPT !.pc = "remediate", !.findings = runSyncChecksStalled]]
  /\ UNCHANGED << installVars, cronVars, shellVars, logVars, wf, run, steps, stories, clock >>

\* the loop of runMedicCheck that marks and counts a finding with the
\* action none as if it had been remediated
MedicNoneCounted(m) ==
  /\ HasFinding(m, "none")
  /\ Pop(m, TRUE)
  /\ UNCHANGED << installVars, cronVars, shellVars, logVars, wf, run, steps, stories, clock >>

\* the loop of runMedicCheck passes over a finding with the action none:
\* remediate is not called
MedicNone(m) ==
  /\ HasFinding(m, "none")
  /\ medic' = [medic EXCEPT ![m] =
       [@ EXCEPT !.findings = Tail(@),
                 !.details = Append(@, Head(medic[m].findings))]]
  /\ UNCHANGED << installVars, cronVars, shellVars, logVars, wf, run, steps, stories, clock >>

MedicResetStep(m, ok) ==
  /\ HasFinding(m, "reset_step")
  /\ RemediateResetStep(Head(medic[m].findings), ok)
  /\ Pop(m, ok)
  /\ UNCHANGED << installVars, cronVars, shellVars, logVars, wf, clock >>

MedicFailRun(m, ok) ==
  /\ HasFinding(m, "fail_run")
  /\ RemediateFailRun(Head(medic[m].findings), ok)
  /\ Pop(m, ok)
  /\ UNCHANGED << installVars, cronVars, shellVars, logVars, wf, clock >>

MedicResumeRun(m, ok) ==
  /\ HasFinding(m, "resume_run")
  /\ RemediateResumeRun(Head(medic[m].findings), ok)
  /\ Pop(m, ok)
  /\ UNCHANGED << installVars, cronVars, shellVars, logVars, wf, clock >>

MedicResetStory(m, ok, pr) ==
  /\ HasFinding(m, "reset_story")
  /\ RemediateResetStory(Head(medic[m].findings), ok, pr)
  /\ Pop(m, ok)
  /\ UNCHANGED << installVars, cronVars, shellVars, logVars, wf, clock >>

MedicFinish(m) ==
  /\ medic[m].pc = "remediate"
  /\ medic[m].findings = << >>
  /\ medic' = [medic EXCEPT ![m] = IdlePass]
  /\ UNCHANGED << installVars, cronVars, shellVars, logVars, wf, run, steps, stories, clock >>

StepEngine ==
  \/ \E s \in StepIds : AgentClaimStep(s)
  \/ \E s \in StepIds, n \in 0 .. MaxStories : AgentCompleteStep(s, n)
  \/ \E s \in StepIds : AgentFailStep(s)

LoopEngine ==
  \/ \E L \in StepIds, t \in StoryIds : AgentClaimStory(L, t)
  \/ \E L \in StepIds, t \in StoryIds : AgentCompleteStory(L, t)
  \/ \E L \in StepIds, t \in StoryIds : AgentFailStory(L, t)
  \/ \E L \in StepIds : LoopCompletion(L)

\* the medic passes of the processes in M
Medic(M) ==
  \/ \E m \in M : MedicCheck(m)
  \/ \E m \in M, ok \in BOOLEAN : MedicResetStep(m, ok)
  \/ \E m \in M, ok \in BOOLEAN : MedicFailRun(m, ok)
  \/ \E m \in M, ok \in BOOLEAN : MedicResumeRun(m, ok)
  \/ \E m \in M, ok \in BOOLEAN, pr \in BOOLEAN : MedicResetStory(m, ok, pr)
  \/ \E m \in M : MedicFinish(m)

\* Spec: a run of a workflow with a loop step, followed in long clock steps,
\* with one medic pass at a time.
Init == InitFor(LoopWorkflows)

Next == StepEngine \/ LoopEngine \/ Medic({ "m1" }) \/ Tick(LongTick)

Spec == Init /\ [][Next]_vars

\* SpecOverlap: two medic processes, whose passes may overlap, on a run
\* that failed when its first story used up its retry budget (the state
\* AgentFailStory leaves; the other story pending or claimed by a second
\* worker).  The loop step is failed and the plan step done, so no agent
\* action is enabled before the medic restores a step, and no step is running.
InitOverlap ==
  /\ wf = WorkflowPlain
  /\ run = [status |-> "failed", age |-> 0, medic_resume_count |-> 0,
            medic_last_resume |-> NEVER]
  /\ steps = << Touch(NewStep(1), "done"), Touch(NewStep(2), "failed") >>
  /\ \E st \in { "pending", "running" } :
       stories = << [Touch(NewStory, "failed") EXCEPT !.retry_count = MaxRetries],
                    Touch(NewStory, st) >>
  /\ medic = [m \in MedicIds |-> IdlePass]
  /\ clock = 0
  /\ medic_checks = << >>
  /\ ShellIdle
  /\ InstallIdle
  /\ CronIdle

MedicOverlap(M) ==
  \/ \E m \in M : MedicCheck(m)
  \/ \E m \in M, ok \in BOOLEAN : MedicFailRun(m, ok)
  \/ \E m \in M, ok \in BOOLEAN : MedicResumeRun(m, ok)
  \/ \E m \in M, ok \in BOOLEAN, pr \in BOOLEAN : MedicResetStory(m, ok, pr)
  \/ \E m \in M : MedicFinish(m)

NextOverlap == MedicOverlap(MedicIds) \/ Tick(LongTick)

SpecOverlap == InitOverlap /\ [][NextOverlap]_vars

\* SpecResume: the medic on a failed verify_each run, from the states in
\* which checkFailedRunsForResume and resume_run find it: the plan step done
\* (after no or one failure), the loop step open, running (the status
\* resume_run selects it by), or failed, the verify step waiting or failed
\* with its budget used up, at least one step failed, and each story pending,
\* running, failed or verified.
InitResume ==
  /\ wf = WorkflowVerifyEach
  /\ run = [status |-> "failed", age |-> 0, medic_resume_count |-> 0,
            medic_last_resume |-> NEVER]
  /\ \E pr \in 0 .. 1, ls \in { "pending", "running", "failed" },
        lr \in 0 .. 1, vs \in { "waiting", "failed" } :
       /\ "failed" \in { ls, vs }
       /\ steps = << [Touch(NewStep(1), "done") EXCEPT !.retry_count = pr],
                     [Touch(NewStep(2), ls) EXCEPT !.retry_count = lr],
                     [Touch(NewStep(3), vs) EXCEPT !.retry_count =
                        IF vs = "failed" THEN MaxRetries ELSE 0] >>
  /\ \E a, b \in { "pending", "running", "failed", "verified" } :
       stories = << [Touch(NewStory, a) EXCEPT !.retry_count =
                       IF a = "failed" THEN MaxRetries ELSE 0],
                    [Touch(NewStory, b) EXCEPT !.retry_count =
                       IF b = "failed" THEN MaxRetries ELSE 0] >>
  /\ medic = [m \in MedicIds |-> IdlePass]
  /\ clock = 0
  /\ medic_checks = << >>
  /\ ShellIdle
  /\ InstallIdle
  /\ CronIdle

NextResume == MedicOverlap({ "m1" }) \/ Tick(LongTick)

SpecResume == InitResume /\ [][NextResume]_vars

\* SpecStall: a run of single steps with checkStalledRuns among the checks,
\* one medic pass at a time.  Such a run has no stories and is never dead or
\* failed with work left, so that the pass meets no finding with another
\* action than reset_step and none.
MedicStall(M) ==
  \/ \E m \in M : MedicCheckStalled(m)
  \/ \E m \in M, ok \in BOOLEAN : MedicResetStep(m, ok)
  \/ \E m \in M : MedicNone(m)
  \/ \E m \in M : MedicFinish(m)

NextStall == StepEngine \/ MedicStall({ "m1" }) \/ TickAll(LongTick)

SpecStall == InitFor({ WorkflowSingles }) /\ [][NextStall]_vars

\* SpecLive: Spec without a bound on the time that passes, under the
\* scheduling the crons provide: pending work is claimed, the medic runs,
\* time passes.  Nothing obliges an agent to complete or fail its work.
Pass(d) == Elapse(d) /\ UNCHANGED clock

NextLive == StepEngine \/ LoopEngine \/ Medic({ "m1" }) \/ Pass(LongTick)

Fairness ==
  /\ WF_vars(\E s \in StepIds : AgentClaimStep(s))
  /\ WF_vars(\E L \in StepIds, t \in StoryIds : AgentClaimStory(L, t))
  /\ WF_vars(\E L \in StepIds : LoopCompletion(L))
  /\ WF_vars(Medic({ "m1" }))
  /\ WF_vars(Pass(LongTick))

SpecLive == Init /\ [][NextLive]_vars /\ Fairness

\* SpecSteps: a run of a workflow of single steps, followed in short clock
\* steps, with two medic processes.  Without stories no run is resumed and
\* no story is reset; without a resume no run is left running on terminal
\* steps, so no fail_run finding arises.
MedicSteps(M) ==
  \/ \E m \in M : MedicCheck(m)
  \/ \E m \in M, ok \in BOOLEAN : MedicResetStep(m, ok)
  \/ \E m \in M : MedicFinish(m)

NextSteps == StepEngine \/ MedicSteps(MedicIds) \/ Tick(ShortTick)

SpecSteps == InitFor({ WorkflowSingles }) /\ [][NextSteps]_vars


\* ---------------------------------------------------------- the crons ---
\* The calls of the cron gateway (gateway-api, spec.md 4.5) take ok, the
\* result of the call.  create_job schedules one more job under a new id;
\* list_jobs returns the jobs; delete_job removes the job of the given id.

RECURSIVE SeqOf(_)
SeqOf(S) ==
  IF S = {} THEN << >>
  ELSE LET x == CHOOSE y \in S : TRUE IN << x >> \o SeqOf(S \ { x })

\* the createAgentCronJob calls of setupAgentCrons for workflow w, in order;
\* checked: the result of the call is tested
\* the createAgentCronJob calls of setupAgentCrons for the agents ags of
\* workflow w, from the agent at index i - 1 of the loop on
RECURSIVE SetupCallsOf(_, _, _)
SetupCallsOf(w, ags, i) ==
  IF i > Len(ags) THEN << >>
  ELSE LET anchorMs == (i - 1) * STAGGER_MS IN
       << [name |-> CronName(w, ags[i], 1), checked |-> TRUE, anchorMs |-> anchorMs] >>
         \o (IF ags[i] \in PARALLEL_AGENTS
             THEN [k \in 1 .. PARALLEL_COUNT - 1 |->
                     [name |-> CronName(w, ags[i], k + 1), checked |-> FALSE,
                      anchorMs |-> anchorMs + (k + 1) * STAGGER_MS]]
             ELSE << >>)
         \o SetupCallsOf(w, ags, i + 1)

SetupCalls(w, i) == SetupCallsOf(w, Agents, i)

countActiveRuns(w) == active[w]

\* ensureWorkflowCrons or teardownWorkflowCronsIfIdle returns (or throws to
\* the catch of its caller): a medic pass goes on with its loop
Return(r) ==
  IF r.role = "medic"
  THEN [r EXCEPT !.pc = IF r.phase = "restore" THEN "restore_next" ELSE "remediate_next",
                 !.todo = << >>]
  ELSE IdleProc

\* a run of w starts: the run row is inserted, then ensureWorkflowCrons
StartRun(p, w) ==
  /\ procs[p].pc = "idle"
  /\ active[w] < MaxActive
  /\ active' = [active EXCEPT ![w] = @ + 1]
  /\ procs' = [q \in CronProcs |->
       IF q = p
       THEN [IdleProc EXCEPT !.pc = "ensure_list", !.role = "start", !.wf = w]
       ELSE [procs[q] EXCEPT !.quiet = @ \ { w }]]
  /\ UNCHANGED << installVars, runVars, shellVars, logVars, jobs, nextId >>

\* a run of w whose start has returned ends (done or failed): then
\* teardownWorkflowCronsIfIdle
EndRun(p, w) ==
  /\ procs[p].pc = "idle"
  /\ active[w] > Cardinality({ q \in CronProcs :
                    procs[q].role = "start" /\ procs[q].wf = w })
  /\ active' = [active EXCEPT ![w] = @ - 1]
  /\ procs' = [procs EXCEPT ![p] =
       [IdleProc EXCEPT !.pc = "td_count", !.role = "end", !.wf = w]]
  /\ UNCHANGED << installVars, runVars, shellVars, logVars, jobs, nextId >>

\* ensureWorkflowCrons: workflowCronsExist
EnsureList(p, ok) ==
  /\ procs[p].pc = "ensure_list"
  /\ LET r == [procs[p] EXCEPT !.clean = @ /\ ok]
         exist == ok /\ \E j \in jobs : HasPrefix(j, r.wf)
     IN procs' = [procs EXCEPT ![p] =
          IF exist THEN Return(r) ELSE [r EXCEPT !.pc = "ensure_preflight"]]
  /\ UNCHANGED << installVars, runVars, shellVars, logVars, jobs, nextId, active >>

\* ensureWorkflowCrons: checkCronToolAvailable, then into setupAgentCrons
EnsurePreflight(p, ok) ==
  /\ procs[p].pc = "ensure_preflight"
  /\ LET r == [procs[p] EXCEPT !.clean = @ /\ ok]
     IN procs' = [procs EXCEPT ![p] =
          IF ok THEN [r EXCEPT !.pc = "setup", !.todo = SetupCalls(r.wf, 1)]
          ELSE Return(r)]
  /\ UNCHANGED << installVars, runVars, shellVars, logVars, jobs, nextId, active >>

\* setupAgentCrons: one createAgentCronJob
SetupCreate(p, ok) ==
  /\ procs[p].pc = "setup"
  /\ nextId <= MaxJobs
  /\ LET r == [procs[p] EXCEPT !.clean = @ /\ ok]
         c == Head(r.todo)
     IN /\ IF ok
           THEN /\ jobs' = jobs \cup { [id |-> nextId, name |-> c.name,
                                        anchorMs |-> c.anchorMs] }
                /\ nextId' = nextId + 1
           ELSE UNCHANGED << jobs, nextId >>
        /\ procs' = [q \in CronProcs |->
             IF q = p
             THEN IF (~ok /\ c.checked) \/ Tail(r.todo) = << >>
                  THEN Return(r)
                  ELSE [r EXCEPT !.todo = Tail(@)]
             ELSE IF ok THEN [procs[q] EXCEPT !.quiet = @ \ { r.wf }]
                  ELSE procs[q]]
  /\ UNCHANGED << installVars, runVars, shellVars, logVars, active >>

\* teardownWorkflowCronsIfIdle: countActiveRuns, then the call of listCronJobs
TeardownCount(p) ==
  /\ procs[p].pc = "td_count"
  /\ procs' = [procs EXCEPT ![p] =
       IF countActiveRuns(procs[p].wf) > 0 THEN Return(@)
       ELSE [@ EXCEPT !.pc = "td_list"]]
  /\ UNCHANGED << installVars, runVars, shellVars, logVars, jobs, nextId, active >>

\* teardownWorkflowCronsIfIdle: the answer of listCronJobs
TeardownList(p, ok) ==
  /\ procs[p].pc = "td_list"
  /\ LET r == [procs[p] EXCEPT !.clean = @ /\ ok]
         ids == { j.id : j \in { k \in jobs : HasPrefix(k, r.wf) } }
     IN procs' = [procs EXCEPT ![p] =
          IF ~ok \/ ids = {} THEN Return(r)
          ELSE [r EXCEPT !.pc = "td_delete", !.todo = Ordered(ids, << >>)]]
  /\ UNCHANGED << installVars, runVars, shellVars, logVars, jobs, nextId, active >>

\* teardownWorkflowCronsIfIdle that returns after its first deleteCronJob
TeardownDeleteOnce(p, ok) ==
  /\ procs[p].pc = "td_delete"
  /\ LET r == [procs[p] EXCEPT !.clean = @ /\ ok]
     IN /\ jobs' = IF ok THEN { j \in jobs : j.id # Head(r.todo) } ELSE jobs
        /\ procs' = [procs EXCEPT ![p] = Return(r)]
  /\ UNCHANGED << installVars, runVars, shellVars, logVars, nextId, active >>

\* teardownWorkflowCronsIfIdle: one deleteCronJob(job.id)
TeardownDelete(p, ok) ==
  /\ procs[p].pc = "td_delete"
  /\ LET r == [procs[p] EXCEPT !.clean = @ /\ ok]
     IN /\ jobs' = IF ok THEN { j \in jobs : j.id # Head(r.todo) } ELSE jobs
        /\ procs' = [procs EXCEPT ![p] =
             IF Tail(r.todo) = << >> THEN Return(r)
             ELSE [r EXCEPT !.todo = Tail(@)]]
  /\ UNCHANGED << installVars, runVars, shellVars, logVars, nextId, active >>

\* runMedicCheck begins: restoreActiveRunCrons reads the workflows with a
\* running run
CronPassBegin(p) ==
  /\ procs[p].pc = "idle"
  /\ LET ws == { w \in CronWorkflows : active[w] > 0 }
     IN procs' = [procs EXCEPT ![p] =
          [IdleProc EXCEPT !.pc = "restore_next", !.role = "medic",
                           !.phase = "restore", !.rest = SeqOf(ws), !.seen = ws,
                           !.quiet = CronWorkflows \ ws]]
  /\ UNCHANGED << installVars, runVars, shellVars, logVars, jobs, nextId, active >>

\* restoreActiveRunCrons: the next workflow; loadable: loadWorkflowSpec
\* returns the spec
RestoreNext(p, loadable) ==
  /\ procs[p].pc = "restore_next"
  /\ procs[p].rest # << >>
  /\ LET w == Head(procs[p].rest)
     IN procs' = [procs EXCEPT ![p] =
          IF loadable
          THEN [@ EXCEPT !.pc = "ensure_list", !.wf = w, !.rest = Tail(@)]
          ELSE [@ EXCEPT !.rest = Tail(@), !.skipped = @ \cup { w }]]
  /\ UNCHANGED << installVars, runVars, shellVars, logVars, jobs, nextId, active >>

\* restoreActiveRunCrons is through; runSyncChecks; the call of listCronJobs
RestoreEnd(p) ==
  /\ procs[p].pc = "restore_next"
  /\ procs[p].rest = << >>
  /\ procs' = [procs EXCEPT ![p] = [@ EXCEPT !.pc = "orphan_list", !.phase = "remediate"]]
  /\ UNCHANGED << installVars, runVars, shellVars, logVars, jobs, nextId, active >>

\* the workflows checkOrphanedCrons reports, given the jobs listed
checkOrphanedCrons(cronJobs) ==
  { w \in { j.name.wf : j \in cronJobs } : countActiveRuns(w) = 0 }

\* the answer of listCronJobs, checkOrphanedCrons; the findings of
\* runSyncChecks, which come before these, are not followed here
OrphanList(p, ok) ==
  /\ procs[p].pc = "orphan_list"
  /\ procs' = [procs EXCEPT ![p] =
       [@ EXCEPT !.pc = "remediate_next", !.clean = @ /\ ok,
                 !.rest = IF ok THEN SeqOf(checkOrphanedCrons(jobs)) ELSE << >>]]
  /\ UNCHANGED << installVars, runVars, shellVars, logVars, jobs, nextId, active >>

\* the remediation loop at a finding with the action teardown_crons
TeardownCronsNext(p) ==
  /\ procs[p].pc = "remediate_next"
  /\ procs[p].rest # << >>
  /\ procs' = [procs EXCEPT ![p] =
       [@ EXCEPT !.pc = "td_count", !.wf = Head(procs[p].rest), !.rest = Tail(@)]]
  /\ UNCHANGED << installVars, runVars, shellVars, logVars, jobs, nextId, active >>

\* the remediation loop is through: the pass ends
CronPassEnd(p) ==
  /\ procs[p].pc = "remediate_next"
  /\ procs[p].rest = << >>
  /\ procs' = [procs EXCEPT ![p] = IdleProc]
  /\ UNCHANGED << installVars, runVars, shellVars, logVars, jobs, nextId, active >>

\* the scheduler loses a job (a restart of the gateway), between the
\* operations of the processes
GatewayLoses(j) ==
  /\ j \in jobs
  /\ \A p \in CronProcs : procs[p].pc = "idle"
  /\ jobs' = jobs \ { j }
  /\ UNCHANGED << installVars, runVars, shellVars, logVars, nextId, active, procs >>

\* SpecCrons: the processes that start and end runs of a workflow and run
\* the medic pass, each stopping at every await on the cron gateway.
NextCrons ==
  \/ \E p \in CronProcs, w \in CronWorkflows : StartRun(p, w)
  \/ \E p \in CronProcs, w \in CronWorkflows : EndRun(p, w)
  \/ \E p \in CronProcs, ok \in BOOLEAN : EnsureList(p, ok)
  \/ \E p \in CronProcs, ok \in BOOLEAN : EnsurePreflight(p, ok)
  \/ \E p \in CronProcs, ok \in BOOLEAN : SetupCreate(p, ok)
  \/ \E p \in CronProcs : TeardownCount(p)
  \/ \E p \in CronProcs, ok \in BOOLEAN : TeardownList(p, ok)
  \/ \E p \in CronProcs, ok \in BOOLEAN : TeardownDelete(p, ok)
  \/ \E p \in CronProcs : CronPassBegin(p)
  \/ \E p \in CronProcs, loadable \in BOOLEAN : RestoreNext(p, loadable)
  \/ \E p \in CronProcs : RestoreEnd(p)
  \/ \E p \in CronProcs, ok \in BOOLEAN : OrphanList(p, ok)
  \/ \E p \in CronProcs : TeardownCronsNext(p)
  \/ \E p \in CronProcs : CronPassEnd(p)
  \/ \E j \in jobs : GatewayLoses(j)

SpecCrons == InitFor({ WorkflowSingles }) /\ [][NextCrons]_vars

\* SpecSetup: one call of setupAgentCrons for a workflow of up to MaxAgents
\* agents with different ids, from its first createAgentCronJob on.
AgentLists ==
  { ags \in UNION { [1 .. n -> AgentIds] : n \in 1 .. MaxAgents } :
      \A i, k \in 1 .. Len(ags) : ags[i] = ags[k] => i = k }

InitSetup ==
  /\ wf = WorkflowSingles
  /\ run = [status |-> "running", age |-> 0, medic_resume_count |-> 0,
            medic_last_resume |-> NEVER]
  /\ steps = [i \in 1 .. Len(wf) |-> NewStep(i)]
  /\ stories = << >>
  /\ medic = [m \in MedicIds |-> IdlePass]
  /\ clock = 0
  /\ medic_checks = << >>
  /\ ShellIdle
  /\ InstallIdle
  /\ jobs = {}
  /\ nextId = 1
  /\ \E w \in CronWorkflows, p \in CronProcs, ags \in AgentLists :
       /\ active = [v \in CronWorkflows |-> IF v = w THEN 1 ELSE 0]
       /\ procs = [q \in CronProcs |->
            IF q = p
            THEN [IdleProc EXCEPT !.pc = "setup", !.role = "start", !.wf = w,
                                  !.todo = SetupCallsOf(w, ags, 1)]
            ELSE IdleProc]

NextSetup == \E p \in CronProcs, ok \in BOOLEAN : SetupCreate(p, ok)

SpecSetup == InitSetup /\ [][NextSetup]_vars


\* ------------------------------------------ reset_story, step by step ---
\* SpecMerged: a run at its loop step and two medic processes, with
\* reset_story in its two steps: the SELECT of the running story, and,
\* after the gh call of checkMergedPR has returned, the UPDATEs.
\* the clock steps followed
MergedTicks == 2

InitMerged ==
  /\ wf = WorkflowPlain
  /\ run = [status |-> "running", age |-> 0, medic_resume_count |-> 0,
            medic_last_resume |-> NEVER]
  /\ steps = << Touch(NewStep(1), "done"), Touch(NewStep(2), "pending") >>
  /\ stories = [i \in 1 .. MaxStories |-> NewStory]
  /\ medic = [m \in MedicIds |-> IdlePass]
  /\ clock = 0
  /\ medic_checks = << >>
  /\ ShellIdle
  /\ InstallIdle
  /\ CronIdle

\* reset_story up to the call of checkMergedPR
MedicResetStoryRead(m) ==
  /\ HasFinding(m, "reset_story")
  /\ LET story == stories[Head(medic[m].findings).storyId] IN
     IF story.status # "running"
     THEN Pop(m, FALSE)
     ELSE medic' = [medic EXCEPT ![m] =
            [@ EXCEPT !.pc = "reset_story_gh", !.story = story.abandoned_count]]
  /\ UNCHANGED << installVars, cronVars, shellVars, logVars, wf, run, steps, stories, clock >>

\* reset_story from the return of checkMergedPR on; pr: it found a merged
\* pull request
MedicResetStoryWrite(m, pr) ==
  /\ medic[m].pc = "reset_story_gh"
  /\ LET storyId == Head(medic[m].findings).storyId
         newCount == medic[m].story + 1
     IN IF pr
        THEN /\ stories' = [stories EXCEPT ![storyId] =
                    [Touch(@, "verified") EXCEPT !.abandoned_count = 0]]
             /\ steps' = ReleaseStory(storyId)
        ELSE IF newCount >= MAX_STORY_ABANDONS
        THEN /\ stories' = [stories EXCEPT ![storyId] =
                    [Touch(@, "skipped") EXCEPT !.abandoned_count = newCount]]
             /\ UNCHANGED steps
        ELSE /\ stories' = [stories EXCEPT ![storyId] =
                    [Touch(@, "pending") EXCEPT !.abandoned_count = newCount]]
             /\ steps' = ReleaseStory(storyId)
  /\ medic' = [medic EXCEPT ![m] =
       [@ EXCEPT !.pc = "remediate", !.story = NEVER,
                 !.findings = Tail(@),
                 !.details = Append(@, [Head(medic[m].findings) EXCEPT !.remediated = TRUE]),
                 !.actionsTaken = @ + 1]]
  /\ UNCHANGED << installVars, cronVars, shellVars, logVars, wf, run, clock >>

NextMerged ==
  \/ LoopEngine
  \/ clock < MergedTicks /\ Tick(LongTick)
  \/ \E m \in MedicIds : MedicCheck(m)
  \/ \E m \in MedicIds, ok \in BOOLEAN : MedicFailRun(m, ok)
  \/ \E m \in MedicIds, ok \in BOOLEAN : MedicResumeRun(m, ok)
  \/ \E m \in MedicIds : MedicResetStoryRead(m)
  \/ \E m \in MedicIds, pr \in BOOLEAN : MedicResetStoryWrite(m, pr)
  \/ \E m \in MedicIds : MedicFinish(m)

SpecMerged == InitMerged /\ [][NextMerged]_vars


\* ------------------------------------- runSyncChecks, query by query ---
\* SpecChecks: a run of single steps whose first step was claimed about
\* CLAIMED_STUCK_THRESHOLD_MS or MAX_ROLE_TIMEOUT_MS ago, in clock steps of
\* one millisecond, with runSyncChecks in two steps: the queries up to
\* checkClaimedButStuck, and those from checkStuckSteps on.  Every query
\* reads the clock when it is executed (julianday('now')).
MsTicks == 3

ClaimAges ==
  { CLAIMED_STUCK_THRESHOLD_MS + d : d \in 0 .. 1 }
    \cup { MAX_ROLE_TIMEOUT_MS + d : d \in (0 - 2) .. 0 }

InitChecks ==
  /\ wf = WorkflowSingles
  /\ run = [status |-> "running", age |-> 0, medic_resume_count |-> 0,
            medic_last_resume |-> NEVER]
  /\ \E a \in ClaimAges, k \in 0 .. MAX_STEP_ABANDONS - 1 :
       steps = [i \in 1 .. Len(wf) |->
                  IF i = 1
                  THEN [NewStep(i) EXCEPT !.status = "running", !.age = a,
                                          !.abandoned_count = k]
                  ELSE NewStep(i)]
  /\ stories = << >>
  /\ medic = [m \in MedicIds |-> IdlePass]
  /\ clock = 0
  /\ medic_checks = << >>
  /\ ShellIdle
  /\ InstallIdle
  /\ CronIdle

MsTick ==
  /\ clock < MsTicks
  /\ clock' = clock + 1
  /\ Elapse(1)

\* runSyncChecks up to the query of checkClaimedButStuck
MedicCheckClaimed(m) ==
  /\ medic[m].pc = "idle"
  /\ medic' = [medic EXCEPT ![m] =
       [IdlePass EXCEPT !.pc = "checks",
                        !.findings = checkOrphanedStories \o checkClaimedButStuck]]
  /\ UNCHANGED << installVars, cronVars, shellVars, logVars, wf, run, steps, stories, clock >>

\* runSyncChecks from the query of checkStuckSteps on
MedicCheckStuck(m) ==
  /\ medic[m].pc = "checks"
  /\ medic' = [medic EXCEPT ![m] =
       [@ EXCEPT !.pc = "remediate",
                 !.findings = @ \o checkStuckSteps \o checkDeadRuns
                                \o checkFailedRunsForResume]]
  /\ UNCHANGED << installVars, cronVars, shellVars, logVars, wf, run, steps, stories, clock >>

NextChecks ==
  \/ StepEngine
  \/ MsTick
  \/ MedicCheckClaimed("m1")
  \/ MedicCheckStuck("m1")
  \/ \E ok \in BOOLEAN : MedicResetStep("m1", ok)
  \/ MedicFinish("m1")

SpecChecks == InitChecks /\ [][NextChecks]_vars


\* ------------------------------------------------ uninstallWorkflow ---
\* SpecInstall: the agent list of openclaw.json (config) and the
\* directories on disk (dirs) under uninstallWorkflow.  A text is the
\* sequence of its characters.  The workflow ids are one character and the
\* same character followed by two more; the agent ids of a workflow are one
\* character.  An entry of the list carries, beside its id and agentDir,
\* the workflow it was installed for (<< >> for the main agent), which the
\* program does not store.
InstalledWorkflows == { << "f" >>, << "f", "-", "d" >> }
InstalledRoles == { << "p" >>, << "d" >> }

\* text.startsWith(prefix)
startsWith(text, prefix) ==
  /\ Len(text) >= Len(prefix)
  /\ SubSeq(text, 1, Len(prefix)) = prefix

\* the id of the agent of role a in workflow w: `${workflow.id}_${agent.id}`
cronAgentId(w, a) == w \o << "_" >> \o a

AgentDir(id) == [root |-> "agents", name |-> id]
resolveWorkflowDir(w) == [root |-> "workflows", name |-> w]
resolveWorkflowWorkspaceDir(w) == [root |-> "workspaces", name |-> w]

AgentEntry(w, a) ==
  [id |-> cronAgentId(w, a), agentDir |-> AgentDir(cronAgentId(w, a)), workflow |-> w]
MainAgent == [id |-> << "m" >>, agentDir |-> AgentDir(<< "m" >>), workflow |-> << >>]

AgentEntries ==
  { MainAgent } \cup { AgentEntry(w, a) : w \in InstalledWorkflows, a \in InstalledRoles }

filterAgentList(list, workflowId) ==
  LET prefix == workflowId \o << "/" >>
      Keeps(entry) == ~startsWith(entry.id, prefix)
  IN SelectSeq(list, Keeps)

uninstallWorkflow(workflowId) ==
  LET list == config
      nextList == filterAgentList(list, workflowId)
      removedAgents == { list[i] : i \in 1 .. Len(list) } \ { nextList[i] : i \in 1 .. Len(nextList) }
  IN /\ config' = nextList
     /\ dirs' = (dirs \ { resolveWorkflowDir(workflowId),
                          resolveWorkflowWorkspaceDir(workflowId) })
                  \ { entry.agentDir : entry \in removedAgents }
     /\ UNCHANGED << runVars, cronVars, logVars, shellVars >>

\* the lists of distinct entries, and the directories installed with them
InitInstall ==
  /\ wf = WorkflowSingles
  /\ run = [status |-> "running", age |-> 0, medic_resume_count |-> 0,
            medic_last_resume |-> NEVER]
  /\ steps = [i \in 1 .. Len(wf) |-> NewStep(i)]
  /\ stories = << >>
  /\ medic = [m \in MedicIds |-> IdlePass]
  /\ clock = 0
  /\ medic_checks = << >>
  /\ ShellIdle
  /\ CronIdle
  /\ config \in { l \in UNION { [1 .. n -> AgentEntries] : n \in 0 .. MaxAgents } :
                    \A i, k \in 1 .. Len(l) : l[i] = l[k] => i = k }
  /\ dirs = { config[i].agentDir : i \in 1 .. Len(config) }
              \cup UNION { { resolveWorkflowDir(config[i].workflow),
                             resolveWorkflowWorkspaceDir(config[i].workflow) } :
                           i \in { k \in 1 .. Len(config) : config[k].workflow # << >> } }

NextInstall == \E w \in InstalledWorkflows : uninstallWorkflow(w)

SpecInstall == InitInstall /\ [][NextInstall]_vars


\* ------------------------------------------- cron deletion by prefix ---
\* SpecPrefix: the cron jobs of two workflows, the id of one beginning with
\* the id of the other, under removeAgentCrons and
\* teardownWorkflowCronsIfIdle.  The names of the jobs are texts; every job
\* carries the workflow it was created for, which the scheduler does not
\* store.  A gateway call may fail and then deletes nothing.
SETFARM == << "s", "e", "t", "f", "a", "r", "m", "/" >>

\* the prefix without the slash that ends the workflow id
CronPrefixBare(workflowId) == SETFARM \o workflowId

\* `setfarm/${workflowId}/`
CronPrefix(workflowId) == SETFARM \o workflowId \o << "/" >>

\* `setfarm/${workflow.id}/${agent.id}` and `setfarm/${workflow.id}/${agent.id}-${n}`
CronRoles == InstalledRoles \cup { << "d", "-", "2" >> }
CronNameText(w, a) == SETFARM \o w \o << "/" >> \o a

PossibleJobs ==
  LET names == SeqOf({ << w, a >> : w \in InstalledWorkflows, a \in CronRoles })
  IN { [id |-> i, name |-> CronNameText(names[i][1], names[i][2]),
        workflow |-> names[i][1]] : i \in 1 .. Len(names) }

\* delete_jobs_by_prefix of the gateway
deleteAgentCronJobs(prefix) ==
  \E ok \in BOOLEAN :
    jobs' = IF ok THEN { j \in jobs : ~startsWith(j.name, prefix) } ELSE jobs

removeAgentCrons(workflowId) ==
  /\ deleteAgentCronJobs(CronPrefix(workflowId))
  /\ UNCHANGED << installVars, runVars, shellVars, logVars, nextId, active, procs >>

\* teardownWorkflowCronsIfIdle with every await done; deleted are the jobs
\* whose deleteCronJob succeeded
teardownWorkflowCronsIfIdle(workflowId) ==
  /\ IF active[workflowId] > 0
     THEN jobs' = jobs
     ELSE \E ok \in BOOLEAN :
            LET prefix == CronPrefix(workflowId)
                listed == IF ok THEN { j \in jobs : startsWith(j.name, prefix) } ELSE {}
            IN \E deleted \in SUBSET listed : jobs' = jobs \ deleted
  /\ UNCHANGED << installVars, runVars, shellVars, logVars, nextId, active, procs >>

\* every workflow has at least one job; either has a running run or none
InitPrefix ==
  /\ wf = WorkflowSingles
  /\ run = [status |-> "running", age |-> 0, medic_resume_count |-> 0,
            medic_last_resume |-> NEVER]
  /\ steps = [i \in 1 .. Len(wf) |-> NewStep(i)]
  /\ stories = << >>
  /\ medic = [m \in MedicIds |-> IdlePass]
  /\ clock = 0
  /\ medic_checks = << >>
  /\ ShellIdle
  /\ InstallIdle
  /\ jobs \in { J \in SUBSET PossibleJobs :
                  \A w \in InstalledWorkflows : \E j \in J : j.workflow = w }
  /\ nextId = Cardinality(PossibleJobs) + 1
  /\ active \in [InstalledWorkflows -> 0 .. 1]
  /\ procs = [p \in CronProcs |-> IdleProc]

NextPrefix ==
  \/ \E w \in InstalledWorkflows : teardownWorkflowCronsIfIdle(w)
  \/ \E w \in InstalledWorkflows : removeAgentCrons(w)

SpecPrefix == InitPrefix /\ [][NextPrefix]_vars


\* ------------------------------------- circuit breaker and medic_checks ---
\* SpecBreaker: a run at its loop step with pending stories, the crons of
\* its workflow, one medic process whose passes end with the row they write
\* to medic_checks, and clock steps of BreakerTick.  Of every story the
\* time since an agent last claimed it is kept beside the row (claimed),
\* which the program does not store.

\* minutes per clock step
BreakerMinutes == 10
BreakerTick == BreakerMinutes * 60 * 1000
\* the minute, counted from 00:00 UTC of a first day, at which clock is 0
StartMinute == 1430
\* the passes of the medic followed
MaxPasses == 3

CIRCUIT_BREAKER_THRESHOLD_MS == 12 * 60 * 1000
COOLDOWN_MINUTES == 15
MEDIC_CHECKS_KEEP == 500
MINUTES_PER_DAY == 1440

Now == StartMinute + clock * BreakerMinutes

\* new Date().toISOString(): YYYY-MM-DDTHH:MM:SS.sssZ
toISOString(t) ==
  [date |-> t \div MINUTES_PER_DAY, sep |-> "T", time |-> t % MINUTES_PER_DAY]

\* SQLite datetime(): YYYY-MM-DD HH:MM:SS
datetime(t) ==
  [date |-> t \div MINUTES_PER_DAY, sep |-> " ", time |-> t % MINUTES_PER_DAY]

\* the minute a text of either format stands for
MinuteOf(x) == x.date * MINUTES_PER_DAY + x.time

\* the code of the character that follows the date
SepCode(c) == IF c = "T" THEN 84 ELSE 32

\* a > b of two TEXT values: byte by byte from the left
TextGreater(a, b) ==
  \/ a.date > b.date
  \/ /\ a.date = b.date
     /\ \/ SepCode(a.sep) > SepCode(b.sep)
        \/ a.sep = b.sep /\ a.time > b.time

BreakerWorkflow == CHOOSE w \in CronWorkflows : TRUE

\* details LIKE '%stalled_workflow_crons%': the check of some finding
LikeStalled(details) ==
  \E i \in 1 .. Len(details) : details[i].check = "stalled_workflow_crons"

\* details LIKE '%"remediated":true%': the flag of some finding
LikeRemediated(details) ==
  \E i \in 1 .. Len(details) : details[i].remediated

\* the cooldown that never finds a recent row
RecentRecreateNever(w) == FALSE

\* the cooldown query of checkStalledWorkflowCrons; with the one workflow
\* of the model, the workflowId of every stalled_workflow_crons finding
\* matches the third LIKE
RecentRecreate(w) ==
  \E i \in 1 .. Len(medic_checks) :
    /\ LikeStalled(medic_checks[i].details)
    /\ LikeRemediated(medic_checks[i].details)
    /\ TextGreater(medic_checks[i].checked_at, datetime(Now - COOLDOWN_MINUTES))

PendingStories == { t \in StoryIds : stories[t].status = "pending" }

\* Date.now() - MAX(updated_at) of the running stories
LastClaimAge ==
  IF RunningStories = {} THEN CIRCUIT_BREAKER_THRESHOLD_MS + 1
  ELSE Min({ stories[t].age : t \in RunningStories })

checkStalledWorkflowCrons ==
  IF /\ run.status = "running"
     /\ PendingStories # {}
     /\ ~ (LastClaimAge <= CIRCUIT_BREAKER_THRESHOLD_MS)
     /\ ~ RecentRecreate(BreakerWorkflow)
  THEN << Finding("stalled_workflow_crons", "recreate_crons", NULL, NULL) >>
  ELSE << >>

\* runSyncChecks with checkStalledWorkflowCrons, its last check
runSyncChecksBreaker == runSyncChecks \o checkStalledWorkflowCrons

\* the jobs the first n createAgentCronJob calls of setupAgentCrons add
CronsAt(w, base, n) ==
  { [id |-> base + i - 1, name |-> SetupCalls(w, 1)[i].name,
     anchorMs |-> SetupCalls(w, 1)[i].anchorMs] : i \in 1 .. n }

BreakerStory ==
  [status |-> "pending", retry_count |-> 0, abandoned_count |-> 0, age |-> 0,
   claimed |-> NEVER]

InitBreaker ==
  /\ wf = WorkflowPlain
  /\ run = [status |-> "running", age |-> 0, medic_resume_count |-> 0,
            medic_last_resume |-> NEVER]
  /\ steps = << Touch(NewStep(1), "done"), Touch(NewStep(2), "pending") >>
  /\ stories = [t \in 1 .. MaxStories |-> BreakerStory]
  /\ medic = [m \in MedicIds |-> IdlePass]
  /\ clock = 0
  /\ medic_checks = << >>
  /\ ShellIdle
  /\ InstallIdle
  /\ jobs = CronsAt(BreakerWorkflow, 1, Len(SetupCalls(BreakerWorkflow, 1)))
  /\ nextId = 1 + Len(SetupCalls(BreakerWorkflow, 1))
  /\ active = [w \in CronWorkflows |-> 1]
  /\ procs = [p \in CronProcs |-> IdleProc]

\* claim(agent_id) returning story t, with the time of the claim
BreakerClaimStory(L, t) ==
  /\ run.status = "running"
  /\ IsLoop(L)
  /\ steps[L].status = "pending"
  /\ stories[t].status = "pending"
  /\ Cardinality(RunningStories) < Workers
  /\ stories' = [stories EXCEPT ![t] = [Touch(@, "running") EXCEPT !.claimed = 0]]
  /\ steps' = [steps EXCEPT ![L].current_story_id = t]
  /\ UNCHANGED << installVars, cronVars, shellVars, logVars, wf, run, medic, clock >>

BreakerTickStep ==
  /\ clock < MaxTicks
  /\ clock' = clock + 1
  /\ run' = run
  /\ steps' = [s \in StepIds |-> Aged(steps[s], "running", MAX_ROLE_TIMEOUT_MS, BreakerTick)]
  /\ stories' = [t \in StoryIds |->
       [Aged(stories[t], "running", STORY_STUCK_THRESHOLD_MS, BreakerTick) EXCEPT
          !.claimed = IF @ = NEVER THEN NEVER
                      ELSE Bump(@, CIRCUIT_BREAKER_THRESHOLD_MS, BreakerTick)]]
  /\ UNCHANGED << installVars, cronVars, shellVars, logVars, wf, medic >>

MedicCheckBreaker(m) ==
  /\ medic[m].pc = "idle"
  /\ Len(medic_checks) < MaxPasses
  /\ medic' = [medic EXCEPT ![m] =
       [IdlePass EXCEPT !.pc = "remediate", !.findings = runSyncChecksBreaker]]
  /\ UNCHANGED << installVars, cronVars, shellVars, logVars, wf, run, steps, stories, clock >>

\* remediate recreate_crons: removeAgentCrons, then setupAgentCrons.  ok: no
\* call threw.  deleted: removeAgentCrons removed the jobs.  n: the calls of
\* setupAgentCrons that added a job, the first n; a call whose result is
\* tested and is a failure throws.
MedicRecreateCrons(m, ok, deleted, n) ==
  LET w == BreakerWorkflow
      creates == SetupCalls(w, 1)
      kept == IF deleted THEN { j \in jobs : ~ HasPrefix(j, w) } ELSE jobs
  IN /\ HasFinding(m, "recreate_crons")
     /\ n \in 0 .. Len(creates)
     /\ ok => deleted /\ \A i \in 1 .. Len(creates) : creates[i].checked => i <= n
     /\ ~ ok => /\ n < Len(creates)
                /\ creates[n + 1].checked
                /\ deleted \/ n = 0
     /\ jobs' = kept \cup CronsAt(w, nextId, n)
     /\ nextId' = nextId + n
     /\ Pop(m, ok)
     /\ UNCHANGED << installVars, logVars, shellVars, wf, run, steps, stories, clock, active, procs >>

\* the rows ORDER BY checked_at ASC LIMIT keep would leave
RECURSIVE PrunedOldestKept(_, _)
PrunedOldestKept(rows, keep) ==
  IF Len(rows) <= keep THEN { rows }
  ELSE UNION { PrunedOldestKept([k \in 1 .. Len(rows) - 1 |->
                         IF k < i THEN rows[k] ELSE rows[k + 1]], keep) :
               i \in { i \in 1 .. Len(rows) :
                         \A k \in 1 .. Len(rows) :
                           ~ TextGreater(rows[k].checked_at, rows[i].checked_at) } }

\* the rows ORDER BY checked_at DESC LIMIT keep leaves: while there are more
\* than keep, a row with the lowest checked_at goes
RECURSIVE Pruned(_, _)
Pruned(rows, keep) ==
  IF Len(rows) <= keep THEN { rows }
  ELSE UNION { Pruned([k \in 1 .. Len(rows) - 1 |->
                         IF k < i THEN rows[k] ELSE rows[k + 1]], keep) :
               i \in { i \in 1 .. Len(rows) :
                         \A k \in 1 .. Len(rows) :
                           ~ TextGreater(rows[i].checked_at, rows[k].checked_at) } }

\* the end of runMedicCheck: the INSERT INTO medic_checks and the prune
MedicFinishLogged(m) ==
  /\ medic[m].pc = "remediate"
  /\ medic[m].findings = << >>
  /\ medic_checks' \in Pruned(Append(medic_checks,
         [checked_at |-> toISOString(Now),
          issues_found |-> Len(medic[m].details),
          actions_taken |-> medic[m].actionsTaken,
          details |-> medic[m].details]), MEDIC_CHECKS_KEEP)
  /\ medic' = [medic EXCEPT ![m] = IdlePass]
  /\ UNCHANGED << installVars, cronVars, shellVars, wf, run, steps, stories, clock >>

NextBreaker ==
  \/ \E L \in StepIds, t \in StoryIds :
       BreakerClaimStory(L, t) \/ AgentCompleteStory(L, t)
  \/ BreakerTickStep
  \/ MedicCheckBreaker("m1")
  \/ \E ok \in BOOLEAN, pr \in BOOLEAN : MedicResetStory("m1", ok, pr)
  \/ \E ok \in BOOLEAN, deleted \in BOOLEAN, n \in 0 .. PARALLEL_COUNT + Len(Agents) :
       MedicRecreateCrons("m1", ok, deleted, n)
  \/ MedicFinishLogged("m1")

SpecBreaker == InitBreaker /\ [][NextBreaker]_vars

\* SpecPrune: the medic of a finished run, one pass per clock step, for as
\* many passes as fill medic_checks and a few more.
InitPrune ==
  /\ wf = WorkflowPlain
  /\ run = [status |-> "done", age |-> 0, medic_resume_count |-> 0,
            medic_last_resume |-> NEVER]
  /\ steps = << Touch(NewStep(1), "done"), Touch(NewStep(2), "done") >>
  /\ stories = [t \in 1 .. MaxStories |-> Touch(BreakerStory, "verified")]
  /\ medic = [m \in MedicIds |-> IdlePass]
  /\ clock = 0
  /\ medic_checks = << >>
  /\ ShellIdle
  /\ InstallIdle
  /\ jobs = {}
  /\ nextId = 1
  /\ active = [w \in CronWorkflows |-> 0]
  /\ procs = [p \in CronProcs |-> IdleProc]

\* a pass has ended at the present minute
PassedNow ==
  \E i \in 1 .. Len(medic_checks) : medic_checks[i].checked_at = toISOString(Now)

PruneTick ==
  /\ clock < MEDIC_CHECKS_KEEP + MaxPasses
  /\ PassedNow
  /\ clock' = clock + 1
  /\ Elapse(BreakerTick)

MedicCheckPrune(m) ==
  /\ medic[m].pc = "idle"
  /\ ~ PassedNow
  /\ medic' = [medic EXCEPT ![m] =
       [IdlePass EXCEPT !.pc = "remediate", !.findings = runSyncChecksBreaker]]
  /\ UNCHANGED << installVars, cronVars, shellVars, logVars, wf, run, steps, stories, clock >>

NextPrune == PruneTick \/ MedicCheckPrune("m1") \/ MedicFinishLogged("m1")

SpecPrune == InitPrune /\ [][NextPrune]_vars

\* SpecAtomic: SpecSteps with one medic process and every UPDATE statement
\* of reset_step a step of its own: the statements are not inside a
\* transaction, and the agents' claim, complete and fail calls come from
\* other processes on the same database.
MedicResetStepFirst(m) ==
  /\ HasFinding(m, "reset_step")
  /\ LET f == Head(medic[m].findings)
         newCount == steps[f.stepId].abandoned_count + 1
     IN IF newCount >= MAX_STEP_ABANDONS
        THEN /\ steps' = [steps EXCEPT ![f.stepId] =
                    [Touch(@, "failed") EXCEPT !.abandoned_count = newCount]]
             /\ medic' = [medic EXCEPT ![m].pc = "reset_step_run"]
        ELSE /\ steps' = [steps EXCEPT ![f.stepId] =
                    [Touch(@, "pending") EXCEPT !.abandoned_count = newCount]]
             /\ Pop(m, TRUE)
  /\ UNCHANGED << installVars, cronVars, shellVars, logVars, wf, run, stories, clock >>

\* the UPDATE runs SET status = 'failed' that follows the UPDATE steps
MedicResetStepSecond(m) ==
  /\ medic[m].pc = "reset_step_run"
  /\ run' = Touch(run, "failed")
  /\ medic' = [medic EXCEPT ![m] =
       [@ EXCEPT !.pc = "remediate",
                 !.findings = Tail(@),
                 !.details = Append(@, [Head(medic[m].findings) EXCEPT !.remediated = TRUE]),
                 !.actionsTaken = @ + 1]]
  /\ UNCHANGED << installVars, cronVars, shellVars, logVars, wf, steps, stories, clock >>

NextAtomic ==
  \/ StepEngine
  \/ Tick(ShortTick)
  \/ MedicCheck("m1")
  \/ MedicResetStepFirst("m1")
  \/ MedicResetStepSecond("m1")
  \/ MedicFinish("m1")

SpecAtomic == InitFor({ WorkflowSingles }) /\ [][NextAtomic]_vars

\* --------------------------------------------------- scripts/run-safe.sh ---
\* SpecLock: the invocations of run-safe.sh.  A path is the sequence of its
\* characters.  The repository /r is named by /r and by /r/; /q is another
\* repository; /x is no directory.
RepoArgs == { << "/", "r" >>, << "/", "r", "/" >>, << "/", "q" >>, << "/", "x" >> }

\* the directory a path names: slashes at its end do not matter
RECURSIVE Directory(_)
Directory(path) ==
  IF Len(path) > 1 /\ path[Len(path)] = "/"
  THEN Directory(SubSeq(path, 1, Len(path) - 1))
  ELSE path

GitRepositories == { << "/", "r" >>, << "/", "q" >> }

\* tr "/" "-" | tr " " "_" | sed "s/^-//"
SAFE_KEY(path) ==
  LET t == [i \in 1 .. Len(path) |->
              IF path[i] = "/" THEN "-" ELSE IF path[i] = " " THEN "_" ELSE path[i]]
  IN IF t # << >> /\ Head(t) = "-" THEN Tail(t) ELSE t

LOCK_FILE(path) == << "/tmp/setfarm-" >> \o SAFE_KEY(path) \o << ".lock" >>

\* the invocations that hold the flock of the file: from flock -n to exit
Holders(file) ==
  { i \in Invocations : /\ invocations[i].pc = "workflow"
                        /\ LOCK_FILE(invocations[i].repo_path) = file }

\* run-safe.sh <repo_path> <workflow_id>: the validation of the path
Invoke(i, path) ==
  /\ invocations[i].pc = "none"
  /\ invocations' = [invocations EXCEPT ![i] =
       IF Directory(path) \in GitRepositories
       THEN [pc |-> "lock", repo_path |-> path, exit_code |-> NEVER]
       ELSE [pc |-> "exited", repo_path |-> path, exit_code |-> 2]]
  /\ UNCHANGED << installVars, runVars, cronVars, logVars, calls >>

\* exec 200>"$LOCK_FILE"; flock -n 200
Flock(i) ==
  /\ invocations[i].pc = "lock"
  /\ invocations' = [invocations EXCEPT ![i] =
       IF Holders(LOCK_FILE(invocations[i].repo_path)) # {}
       THEN [@ EXCEPT !.pc = "exited", !.exit_code = 1]
       ELSE [@ EXCEPT !.pc = "workflow"]]
  /\ UNCHANGED << installVars, runVars, cronVars, logVars, calls >>

\* eval "$CMD" returns code; under set -e a failure ends the script at once,
\* with the same code
WorkflowEnds(i, code) ==
  /\ invocations[i].pc = "workflow"
  /\ invocations' = [invocations EXCEPT ![i] =
       [@ EXCEPT !.pc = "exited", !.exit_code = code]]
  /\ UNCHANGED << installVars, runVars, cronVars, logVars, calls >>

NextLock ==
  \/ \E i \in Invocations, path \in RepoArgs : Invoke(i, path)
  \/ \E i \in Invocations : Flock(i)
  \/ \E i \in Invocations, code \in 0 .. 1 : WorkflowEnds(i, code)

SpecLock == InitFor({ WorkflowSingles }) /\ [][NextLock]_vars

\* ---------------------------------------------- claim calls (spec.md 4.2) ---
\* SpecClaim: agents call claim(agent_id) while other calls are in progress.
\* A call is ClaimCall, the transaction claim, and ClaimReturn, the delivery
\* of the response; the agent completes its unit after the delivery.
RoleOf(s) == IF IsLoop(s) THEN "developer" ELSE "planner"

EligibleSteps(role) ==
  { s \in StepIds : /\ run.status = "running"
                    /\ ~ IsLoop(s)
                    /\ RoleOf(s) = role
                    /\ steps[s].status = "pending" }

EligibleStories(role) ==
  { t \in StoryIds : /\ run.status = "running"
                     /\ \E L \in LoopIds : RoleOf(L) = role /\ steps[L].status = "pending"
                     /\ Cardinality(RunningStories) < Workers
                     /\ stories[t].status = "pending" }

\* the stories a claim without the test of the status would serve
UnfinishedStories(role) ==
  { t \in StoryIds : /\ run.status = "running"
                     /\ \E L \in LoopIds : RoleOf(L) = role /\ steps[L].status = "pending"
                     /\ stories[t].status \in { "pending", "running" } }

ClaimCall(c, role) ==
  /\ calls[c].pc = "none"
  /\ calls' = [calls EXCEPT ![c] = [pc |-> "called", role |-> role, response |-> NO_WORK]]
  /\ UNCHANGED << installVars, runVars, cronVars, logVars, invocations >>

\* the transaction of claim over the units in S: the first unit becomes
\* running and is the response, NO_WORK when there is none
ClaimFrom(c, S, T) ==
  /\ calls[c].pc = "called"
  /\ IF S # {}
     THEN /\ steps' = [steps EXCEPT ![Min(S)] = Touch(@, "running")]
          /\ calls' = [calls EXCEPT ![c] = [@ EXCEPT !.pc = "returning",
                          !.response = [stepId |-> Min(S), storyId |-> NULL]]]
          /\ UNCHANGED stories
     ELSE IF T # {}
     THEN /\ stories' = [stories EXCEPT ![Min(T)] = Touch(@, "running")]
          /\ steps' = [s \in StepIds |->
               IF IsLoop(s) /\ RoleOf(s) = calls[c].role
               THEN [steps[s] EXCEPT !.current_story_id = Min(T)] ELSE steps[s]]
          /\ calls' = [calls EXCEPT ![c] = [@ EXCEPT !.pc = "returning",
                          !.response = [stepId |-> NULL, storyId |-> Min(T)]]]
     ELSE /\ calls' = [calls EXCEPT ![c] = [@ EXCEPT !.pc = "returning",
                          !.response = NO_WORK]]
          /\ UNCHANGED << steps, stories >>
  /\ UNCHANGED << installVars, cronVars, logVars, invocations, wf, run, medic, clock >>

\* claim that serves a story whatever its status
claimUnfinished(c) ==
  ClaimFrom(c, EligibleSteps(calls[c].role), UnfinishedStories(calls[c].role))

claim(c) ==
  ClaimFrom(c, EligibleSteps(calls[c].role), EligibleStories(calls[c].role))

ClaimReturn(c) ==
  /\ calls[c].pc = "returning"
  /\ calls' = [calls EXCEPT ![c] = NoCall]
  /\ UNCHANGED << installVars, runVars, cronVars, logVars, invocations >>

\* the unit is in a response that has not been delivered
Undelivered(stepId, storyId) ==
  \E c \in Claimers :
    /\ calls[c].pc = "returning"
    /\ calls[c].response # NO_WORK
    /\ calls[c].response = [stepId |-> stepId, storyId |-> storyId]

NextClaim ==
  \/ \E c \in Claimers, role \in Roles : ClaimCall(c, role)
  \/ \E c \in Claimers : claim(c)
  \/ \E c \in Claimers : ClaimReturn(c)
  \/ \E s \in StepIds, n \in 0 .. MaxStories :
       ~ Undelivered(s, NULL) /\ AgentCompleteStep(s, n)
  \/ \E L \in StepIds, t \in StoryIds :
       ~ Undelivered(NULL, t) /\ AgentCompleteStory(L, t)

SpecClaim == InitFor({ WorkflowPlain }) /\ [][NextClaim]_vars

\* ------------------------------------------------------------ claims ----
Terminal == { "done", "failed", "skipped" }

HeadFinding(m) == Head(medic[m].findings)

\* some medic process applies a remediation in this step
MedicRemediation ==
  \E m \in MedicIds, ok \in BOOLEAN :
    \/ MedicResetStep(m, ok)
    \/ MedicFailRun(m, ok)
    \/ MedicResumeRun(m, ok)
    \/ \E pr \in BOOLEAN : MedicResetStory(m, ok, pr)

\* C1: the resume counter of the run meta never exceeds 3, whatever the
\* interleaving of medic passes (SpecOverlap: two overlapping passes).
C1_ResumeBound == run.medic_resume_count <= RESUME_MAX_ATTEMPTS

\* C2: medic never returns a running step to pending while the session of
\* the agent that claimed it may still be alive, i.e. while the step's
\* claim is no older than the cron job's timeoutSeconds.
C2_NoResetWhileSessionAlive ==
  [][\A m \in MedicIds, ok \in BOOLEAN :
       (MedicResetStep(m, ok) /\ steps[HeadFinding(m).stepId].status = "running")
         => steps[HeadFinding(m).stepId].age > AgentTimeoutMs]_vars

\* C3: reset_step never touches a step that has already become done: the
\* step it is applied to is not done at the moment it is applied.
C3_ResetOnlyRunning ==
  [][\A m \in MedicIds, ok \in BOOLEAN :
       MedicResetStep(m, ok) => steps[HeadFinding(m).stepId].status # "done"]_vars

\* C4: a resume_run that reports success leaves the run running, the step
\* that had failed (lowest step_index) no longer failed, and the resume
\* counter larger by exactly 1.
C4_ResumePostcondition ==
  [][\A m \in MedicIds :
       (MedicResumeRun(m, TRUE) /\ FailedSteps # {})
         => /\ run'.status = "running"
            /\ steps'[Min(FailedSteps)].status # "failed"
            /\ run'.medic_resume_count = run.medic_resume_count + 1]_vars

StepCountsKept ==
  \A s \in StepIds : steps'[s].abandoned_count >= steps[s].abandoned_count

\* C5 (as stated): no step's and no story's abandoned_count ever decreases.
C5_NeverDecreases ==
  [][/\ StepCountsKept
     /\ \A t \in StoryIds :
          stories'[t].abandoned_count >= stories[t].abandoned_count]_vars

\* C5 (amended): a step's abandoned_count never decreases; a story's
\* abandoned_count decreases only when medic auto-verifies the running
\* story on a merged pull request, which sets it to 0.
C5_DecreasesOnlyOnAutoVerify ==
  [][/\ StepCountsKept
     /\ \A t \in StoryIds :
          stories'[t].abandoned_count < stories[t].abandoned_count
            => /\ stories[t].status = "running"
               /\ stories'[t].status = "verified"
               /\ stories'[t].abandoned_count = 0
               /\ \E m \in MedicIds :
                    MedicResetStory(m, TRUE, TRUE) /\ HeadFinding(m).storyId = t]_vars

\* a medic process is about to remediate a running story it (or an earlier
\* pass) has already abandoned at least once
C5_Witness ==
  \E m \in MedicIds :
    /\ HasFinding(m, "reset_story")
    /\ stories[HeadFinding(m).storyId].status = "running"
    /\ stories[HeadFinding(m).storyId].abandoned_count >= 1

\* C6: remediating a stuck step with abandoned_count k makes it pending
\* with abandoned_count k+1 and leaves the run's status alone when k+1 < 5,
\* and fails the step and the run when k+1 >= 5.
C6_StuckStepRemediation ==
  [][\A m \in MedicIds, ok \in BOOLEAN :
       MedicResetStep(m, ok)
         => LET s == HeadFinding(m).stepId
                k == steps[s].abandoned_count
            IN /\ ok
               /\ steps'[s].abandoned_count = k + 1
               /\ IF k + 1 < MAX_STEP_ABANDONS
                  THEN steps'[s].status = "pending" /\ run'.status = run.status
                  ELSE steps'[s].status = "failed" /\ run'.status = "failed"]_vars

\* a step failed, together with its run, on its fifth abandon
C6_Witness ==
  \E s \in StepIds :
    /\ steps[s].status = "failed"
    /\ steps[s].abandoned_count = MAX_STEP_ABANDONS
    /\ run.status = "failed"

\* the running stories of a running run whose claim is older than 30 minutes
OrphanedStories ==
  { t \in StoryIds : /\ stories[t].status = "running"
                     /\ run.status = "running"
                     /\ stories[t].age > STORY_STUCK_THRESHOLD_MS }

\* C7: a medic pass finds exactly the stories running for more than 30
\* minutes in a running run; remediating such a story without a merged PR
\* makes it pending with abandoned_count + 1, or skipped when that brings
\* abandoned_count to 5; the run's status is not changed.
C7_OrphanedStoryRemediation ==
  [][/\ \A m \in MedicIds :
          MedicCheck(m)
            => { f.storyId : f \in { medic'[m].findings[i] :
                                       i \in 1 .. Len(medic'[m].findings) } } \ { NULL }
                 = OrphanedStories
     /\ \A m \in MedicIds :
          MedicResetStory(m, TRUE, FALSE)
            => LET t == HeadFinding(m).storyId
                   k == stories[t].abandoned_count
               IN /\ stories'[t].abandoned_count = k + 1
                  /\ stories'[t].status =
                       IF k + 1 >= MAX_STORY_ABANDONS THEN "skipped" ELSE "pending"
                  /\ run'.status = run.status]_vars

\* a story skipped on its fifth abandon while the run goes on
C7_Witness ==
  \E t \in StoryIds :
    /\ stories[t].status = "skipped"
    /\ stories[t].abandoned_count = MAX_STORY_ABANDONS
    /\ run.status = "running"

\* C8: when medic takes a story out of running, no loop step's
\* current_story_id points at that story afterwards.
C8_CurrentStoryCleared ==
  [][\A m \in MedicIds, pr \in BOOLEAN :
       MedicResetStory(m, TRUE, pr)
         => \A L \in LoopIds :
              steps'[L].current_story_id # HeadFinding(m).storyId]_vars

\* C9: every run eventually is done or failed and stays so.
C9_Termination == <>[](run.status \in { "done", "failed" })

RunningIffActive ==
  (run.status = "running") <=> (\E s \in StepIds : steps[s].status \notin Terminal)

\* C10: a medic remediation applied to a state in which the run is running
\* iff some step is not done, failed or skipped leaves such a state.
C10_RemediationKeepsRunningIff ==
  [][(MedicRemediation /\ RunningIffActive) => RunningIffActive']_vars


BecomesFailed(s) == steps[s].status # "failed" /\ steps'[s].status = "failed"

\* C11 (as stated): a step becomes failed only with its retry_count at the
\* retry budget, and a failure that brings retry_count to the budget makes
\* the step failed.
C11_FailedIffBudget ==
  [][\A s \in StepIds :
       /\ BecomesFailed(s) => steps'[s].retry_count >= MaxRetries
       /\ (steps'[s].retry_count > steps[s].retry_count
             /\ steps'[s].retry_count >= MaxRetries) => BecomesFailed(s)]_vars

\* C11 (amended): a step becomes failed either with its retry_count at the
\* retry budget, or by medic: by reset_step when that abandon brings its
\* abandoned_count to 5, or by fail_run; a failure that brings retry_count
\* to the budget makes the step failed.
C11_FailedByBudgetOrMedic ==
  [][\A s \in StepIds :
       /\ BecomesFailed(s)
            => \/ steps'[s].retry_count >= MaxRetries
               \/ \E m \in MedicIds :
                    /\ MedicResetStep(m, TRUE)
                    /\ HeadFinding(m).stepId = s
                    /\ steps'[s].abandoned_count >= MAX_STEP_ABANDONS
               \/ \E m \in MedicIds : MedicFailRun(m, TRUE)
       /\ (steps'[s].retry_count > steps[s].retry_count
             /\ steps'[s].retry_count >= MaxRetries) => BecomesFailed(s)]_vars

\* medic failed a step whose retry_count is below the budget
C11_Witness ==
  \E s \in StepIds :
    /\ steps[s].status = "failed"
    /\ steps[s].retry_count < MaxRetries
    /\ steps[s].abandoned_count >= MAX_STEP_ABANDONS


\* the step s is the one resume_run resets as the failed step, or the loop
\* step it resets along with its failed verify step
ResumeTarget(s) ==
  /\ FailedSteps # {}
  /\ \/ s = Min(FailedSteps)
     \/ /\ IsLoop(s)
        /\ steps[s].status \in { "running", "failed" }
        /\ wf[s].loop_config.verifyEach
        /\ wf[s].loop_config.verifyStep = wf[Min(FailedSteps)].step_id

C13_ResetsKeepRetryCount ==
  [][\A m \in MedicIds, ok \in BOOLEAN :
       (MedicResetStep(m, ok) \/ \E pr \in BOOLEAN : MedicResetStory(m, ok, pr))
         => /\ \A s \in StepIds : steps'[s].retry_count = steps[s].retry_count
            /\ \A t \in StoryIds : stories'[t].retry_count = stories[t].retry_count]_vars

\* medic has reset a step that had already used part of its retry budget
C13_Witness ==
  \E s \in StepIds :
    /\ steps[s].retry_count >= 1
    /\ steps[s].abandoned_count >= 1
    /\ steps[s].status = "pending"


DeadRun ==
  /\ run.status = "running"
  /\ \A s \in StepIds : steps[s].status \notin ActiveStatuses

PassAtEnd(m) == medic[m].pc = "remediate" /\ medic[m].findings = << >>

LoopReady(L) ==
  /\ run.status = "running"
  /\ steps[L].status = "pending"
  /\ stories # << >>
  /\ LoopFinished

\* the findings of the check stalled_runs among the sequence fs
Stalled(fs) == { i \in 1 .. Len(fs) : fs[i].check = "stalled_runs" }

RECURSIVE CountRemediated(_)
CountRemediated(fs) ==
  IF fs = << >> THEN 0
  ELSE (IF Head(fs).remediated THEN 1 ELSE 0) + CountRemediated(Tail(fs))

\* C15: a stalled run (running, no step updated for twice the largest role
\* timeout) gets a stalled_runs finding with the action none; the finding is
\* never marked remediated and never counted in actions_taken, and the pass
\* changes no run, step or story on account of it.
C15_StalledAlertOnly ==
  [][\A m \in MedicIds :
       /\ MedicCheckStalled(m) =>
            /\ (Stalled(medic'[m].findings) # {})
                 <=> (run.status = "running" /\ LastStepUpdate > STALL_THRESHOLD_MS)
            /\ \A i \in Stalled(medic'[m].findings) :
                 /\ medic'[m].findings[i].action = "none"
                 /\ ~medic'[m].findings[i].remediated
       /\ (/\ medic[m].findings # << >>
           /\ HeadFinding(m).check = "stalled_runs"
           /\ medic'[m] # medic[m]) =>
            /\ UNCHANGED << run, steps, stories >>
            /\ medic'[m].actionsTaken = medic[m].actionsTaken
            /\ medic'[m].details = Append(medic[m].details, HeadFinding(m))
       /\ \A i \in Stalled(medic'[m].details) : ~medic'[m].details[i].remediated
       /\ medic'[m].actionsTaken = CountRemediated(medic'[m].details)]_vars

\* a pass has reset a stuck step and has passed over the stalled_runs
\* finding of the same run
C15_Witness ==
  \E m \in MedicIds :
    /\ medic[m].pc = "remediate"
    /\ medic[m].actionsTaken = 1
    /\ Len(medic[m].details) = 2
    /\ medic[m].details[2].check = "stalled_runs"
    /\ run.status = "running"

C17_NoDuplicateJobs ==
  \A j, k \in jobs : j.name = k.name => j = k

\* C18: teardownWorkflowCronsIfIdle deletes no cron job of a workflow while
\* a run of that workflow is running.
C18_NoDeleteWhileRunning ==
  [][(\E p \in CronProcs, ok \in BOOLEAN : TeardownDelete(p, ok))
       => \A j \in jobs \ jobs' : countActiveRuns(j.name.wf) = 0]_vars


AllCrons(w) ==
  \A i \in 1 .. Len(SetupCalls(w, 1)) :
    \E j \in jobs : j.name = SetupCalls(w, 1)[i].name

\* C20: when restoreActiveRunCrons is through, the gateway calls having
\* succeeded and no other process being at work, every workflow it found
\* with a running run and a loadable spec has a cron job for every role.
C20_RestoreCompletes ==
  [][\A p \in CronProcs :
       (/\ RestoreEnd(p)
        /\ procs[p].clean
        /\ \A q \in CronProcs \ { p } : procs[q].pc = "idle")
         => \A w \in procs[p].seen \ procs[p].skipped : AllCrons(w)]_vars


\* C21: the jobs one setupAgentCrons call creates, one per agent and the
\* shards -2 and -3 of developer and verifier, have pairwise distinct names.
C21_DistinctJobNames ==
  \A j, k \in jobs : JobName(j.name) = JobName(k.name) => j = k

\* C22: no two jobs one setupAgentCrons call creates have the same anchor
\* offset.
C22_DistinctAnchors ==
  \A j, k \in jobs : j.anchorMs = k.anchorMs => j = k


\* C23: a medic pass raises the stalled_workflow_crons finding (action
\* recreate_crons) only for a workflow that has pending stories in a running
\* run and of which no story was claimed during the last 12 minutes,
\* whatever the status of that story now.
C23_StalledOnlyWithoutRecentClaim ==
  [][\A m \in MedicIds :
       MedicCheckBreaker(m) /\ LikeStalled(medic'[m].findings) =>
         /\ run.status = "running"
         /\ PendingStories # {}
         /\ \A t \in StoryIds :
              \/ stories[t].claimed = NEVER
              \/ stories[t].claimed > CIRCUIT_BREAKER_THRESHOLD_MS]_vars

\* a row of a pass in which recreate_crons succeeded
SuccessfulRecreate(details) ==
  \E i \in 1 .. Len(details) :
    details[i].action = "recreate_crons" /\ details[i].remediated

\* the stall signal of checkStalledWorkflowCrons, the cooldown apart
StallSignal ==
  /\ run.status = "running"
  /\ PendingStories # {}
  /\ LastClaimAge > CIRCUIT_BREAKER_THRESHOLD_MS

C25_CooldownExpires ==
  [][\A m \in MedicIds :
       /\ MedicCheckBreaker(m)
       /\ StallSignal
       /\ \E i \in 1 .. Len(medic_checks) : SuccessfulRecreate(medic_checks[i].details)
       /\ \A i \in 1 .. Len(medic_checks) :
            SuccessfulRecreate(medic_checks[i].details) =>
              Now - MinuteOf(medic_checks[i].checked_at) > COOLDOWN_MINUTES
       => LikeStalled(medic'[m].findings)]_vars

\* C26: retention.  medic_checks never holds more than 500 rows, and the
\* pass that ends leaves the rows of the 500 latest passes, its own row
\* among them: its row is added and, of 501 rows, the oldest is gone.
C26_Retention ==
  [][/\ Len(medic_checks') <= MEDIC_CHECKS_KEEP
     /\ \A m \in MedicIds :
          MedicFinishLogged(m) =>
            LET n == Len(medic_checks')
                all == Append(medic_checks, medic_checks'[n])
            IN /\ medic_checks'[n].checked_at = toISOString(Now)
               /\ medic_checks' = IF Len(all) <= MEDIC_CHECKS_KEEP THEN all ELSE Tail(all)
               /\ \A i \in 1 .. n - 1 :
                    TextGreater(medic_checks'[i + 1].checked_at,
                                medic_checks'[i].checked_at)]_vars

\* the table is full and the row of the first pass has been pruned
C26_Witness ==
  /\ Len(medic_checks) = MEDIC_CHECKS_KEEP
  /\ medic_checks[1].checked_at # toISOString(StartMinute)
  /\ medic_checks[MEDIC_CHECKS_KEEP].checked_at = toISOString(Now)

\* C27: every medic pass records exactly one medic_checks row, with
\* issues_found the number of the findings of the pass and actions_taken the
\* number of those marked remediated, at most issues_found; no step but the
\* end of a pass writes a row, no remediation step loses a finding, and a
\* recreate_crons remediation whose gateway calls fail is followed, like any
\* other, by the rest of the pass.
C27_OneRowPerPass ==
  [][/\ medic_checks' # medic_checks =>
          \E m \in MedicIds : medic[m].pc = "remediate" /\ medic'[m].pc = "idle"
     /\ \A m \in MedicIds :
          /\ medic[m].pc = "remediate" /\ medic'[m].pc = "remediate" =>
               Len(medic'[m].findings) + Len(medic'[m].details)
                 = Len(medic[m].findings) + Len(medic[m].details)
          /\ medic[m].pc = "remediate" /\ medic'[m].pc = "idle" =>
               LET n == Len(medic_checks')
                   row == medic_checks'[n]
               IN /\ n = Len(medic_checks) + 1
                  /\ medic[m].findings = << >>
                  /\ row.details = medic[m].details
                  /\ row.issues_found = Len(row.details)
                  /\ row.actions_taken = CountRemediated(row.details)
                  /\ row.actions_taken <= row.issues_found]_vars

\* the row of a pass in which recreate_crons failed at the gateway and
\* reset_story was applied
C27_Witness ==
  \E i \in 1 .. Len(medic_checks) :
    LET d == medic_checks[i].details IN
    /\ \E k \in 1 .. Len(d) : d[k].action = "recreate_crons" /\ ~ d[k].remediated
    /\ \E k \in 1 .. Len(d) : d[k].action = "reset_story" /\ d[k].remediated
    /\ medic_checks[i].issues_found = 2
    /\ medic_checks[i].actions_taken = 1

\* C28: medic remediations are atomic.  Of reset_step at the abandon limit,
\* which marks the step failed and the run failed, no state shows the one
\* write without the other: a step failed at the limit is in a failed run.
C28_AtomicRemediation ==
  \A s \in StepIds :
    steps[s].status = "failed" /\ steps[s].abandoned_count >= MAX_STEP_ABANDONS
      => run.status = "failed"

\* C29: run-safe.sh lets only one workflow command run per repository at a
\* time: two invocations that execute their workflow command at the same
\* time are invocations for different repositories.
C29_OneRunPerRepository ==
  \A i, k \in Invocations :
    /\ invocations[i].pc = "workflow"
    /\ invocations[k].pc = "workflow"
    /\ Directory(invocations[i].repo_path) = Directory(invocations[k].repo_path)
    => i = k

\* two invocations never run their workflow command under the same lock file
LockExcludes ==
  \A i, k \in Invocations :
    /\ invocations[i].pc = "workflow"
    /\ invocations[k].pc = "workflow"
    /\ LOCK_FILE(invocations[i].repo_path) = LOCK_FILE(invocations[k].repo_path)
    => i = k

\* C30: at-most-one claim.  The responses of claim calls for the same role
\* that are in progress together name pairwise different units, or are
\* NO_WORK; and a claim answers NO_WORK only when, at the time of its
\* transaction, no unit was eligible for its role.
C30_AtMostOneClaim ==
  [][/\ \A c, d \in Claimers :
          /\ c # d
          /\ calls'[c].pc = "returning" /\ calls'[d].pc = "returning"
          /\ calls'[c].role = calls'[d].role
          /\ calls'[c].response # NO_WORK
          => calls'[c].response # calls'[d].response
     /\ \A c \in Claimers :
          /\ calls[c].pc = "called"
          /\ calls'[c].pc = "returning"
          /\ calls'[c].response = NO_WORK
          => EligibleSteps(calls[c].role) = {} /\ EligibleStories(calls[c].role) = {}]_vars

\* three calls for the role developer in progress together: two stories
\* served, one to each of two calls, and NO_WORK to the third
C30_Witness ==
  \E c, d, e \in Claimers :
    /\ calls[c].pc = "returning" /\ calls[d].pc = "returning" /\ calls[e].pc = "returning"
    /\ calls[c].role = "developer" /\ calls[d].role = "developer" /\ calls[e].role = "developer"
    /\ calls[c].response # NO_WORK
    /\ calls[d].response # NO_WORK
    /\ c # d
    /\ calls[e].response = NO_WORK

\* the entries of list that were not installed for workflow w, in order
EntriesNotOf(list, w) ==
  LET Other(entry) == entry.workflow # w IN SelectSeq(list, Other)

\* C31: uninstallWorkflow(W) removes from the agent list every agent that
\* belongs to W, keeps the agents of the other workflows and the main agent
\* in their order, and deletes the agent directories of the removed entries
\* only.
C31_UninstallRemovesOwnAgents ==
  [][\A w \in InstalledWorkflows :
       uninstallWorkflow(w) =>
         /\ config' = EntriesNotOf(config, w)
         /\ \A entry \in AgentEntries :
              (entry.agentDir \in dirs /\ entry.agentDir \notin dirs')
                => entry.workflow = w]_vars

\* a medic resume_run has just resumed the run
Resumed == run'.medic_resume_count > run.medic_resume_count

\* C32: two medic resumes of the run are more than RESUME_COOLDOWN_MS apart,
\* a failed run is not resumed less than RESUME_SETTLE_MS after its last
\* update, and a failed run with no story pending or running is not
\* resumed.
C32_ResumeCooldown ==
  [][Resumed =>
       /\ (run.medic_last_resume = NEVER \/ run.medic_last_resume > RESUME_COOLDOWN_MS)
       /\ run.age >= RESUME_SETTLE_MS
       /\ \E t \in StoryIds : stories[t].status \in { "pending", "running" }]_vars

\* C33: a medic pass, whatever the agents and other medic passes do while
\* it runs, changes no story that is verified or skipped.
C33_FinishedStoriesKept ==
  [][medic' # medic =>
       \A t \in StoryIds :
         stories[t].status \in { "verified", "skipped" } => stories'[t] = stories[t]]_vars

\* C34: the abandoned_count of a step never exceeds MAX_STEP_ABANDONS.
C34_AbandonedCountBounded ==
  \A s \in StepIds : steps[s].abandoned_count <= MAX_STEP_ABANDONS

\* the findings of the pass of m, visited or not
PassFindings(m) == medic[m].details \o medic[m].findings

\* C35: in one medic pass a step is the subject of at most one reset_step
\* finding.
C35_OneResetPerStepAndPass ==
  \A m \in MedicIds :
    \A i, k \in 1 .. Len(PassFindings(m)) :
      ( /\ PassFindings(m)[i].action = "reset_step"
        /\ PassFindings(m)[k].action = "reset_step"
        /\ PassFindings(m)[i].stepId = PassFindings(m)[k].stepId ) => i = k

\* C36: removeAgentCrons(W) and teardownWorkflowCronsIfIdle(W) delete no
\* cron job of another workflow, also when W begins the id of the other.
C36_DeletionConfined ==
  [][\A w \in InstalledWorkflows :
       (removeAgentCrons(w) \/ teardownWorkflowCronsIfIdle(w))
         => \A j \in jobs \ jobs' : j.workflow = w]_vars

\* the jobs of the workflow with the shorter id are deleted, and all jobs
\* of the workflow whose id it begins are left
C36_Witness ==
  /\ ~ \E j \in jobs : j.workflow = << "f" >>
  /\ { j \in PossibleJobs : j.workflow = << "f", "-", "d" >> } \subseteq jobs

\* C37: the cooldown is that of the workflow's own recreate.  A pass that
\* finds the stall signal of a workflow and raises no stalled_workflow_crons
\* finding for it comes after a pass that recreated the crons of the
\* workflow successfully (the claim adds: less than 15 minutes before).
C37_CooldownOfOwnRecreate ==
  [][\A m \in MedicIds :
       (MedicCheckBreaker(m) /\ StallSignal /\ ~LikeStalled(medic'[m].findings))
         => \E i \in 1 .. Len(medic_checks) :
              SuccessfulRecreate(medic_checks[i].details)]_vars

\* ---------------------------------------------------------------------------
\* SpecRescue: one medic pass with its cron findings, on a failed verify_each
\* run whose cron jobs are still there.  The run is the only run of its
\* workflow, so that countActiveRuns is read from its status.  The agents
\* act between the steps of the pass.
RescueWorkflow == CHOOSE w \in CronWorkflows : TRUE

\* the jobs of the workflow that are left when the pass begins
RescueJobs == 2

\* countActiveRuns over the one run of the workflow
countRunningRuns == IF run.status = "running" THEN 1 ELSE 0

WorkflowJobs(cronJobs) == { j \in cronJobs : j.name.wf = RescueWorkflow }

\* checkOrphanedCrons: a finding for the workflow whose jobs are listed
\* while it has no running run
orphanedCronFindings(cronJobs) ==
  IF WorkflowJobs(cronJobs) # {} /\ countRunningRuns = 0
  THEN << Finding("orphaned_crons", "teardown_crons", NULL, NULL) >>
  ELSE << >>

InitRescue ==
  /\ wf = WorkflowVerifyEach
  /\ run = [status |-> "failed", age |-> RESUME_SETTLE_MS, medic_resume_count |-> 0,
            medic_last_resume |-> NEVER]
  /\ \E pr \in 0 .. 1, ls \in { "pending", "running", "failed" },
        lr \in 0 .. 1, vs \in { "waiting", "failed" } :
       /\ "failed" \in { ls, vs }
       /\ steps = << [Touch(NewStep(1), "done") EXCEPT !.retry_count = pr],
                     [Touch(NewStep(2), ls) EXCEPT !.retry_count = lr],
                     [Touch(NewStep(3), vs) EXCEPT !.retry_count =
                        IF vs = "failed" THEN MaxRetries ELSE 0] >>
  /\ \E a, b \in { "pending", "running", "failed", "verified" } :
       stories = << [Touch(NewStory, a) EXCEPT !.retry_count =
                       IF a = "failed" THEN MaxRetries ELSE 0],
                    [Touch(NewStory, b) EXCEPT !.retry_count =
                       IF b = "failed" THEN MaxRetries ELSE 0] >>
  /\ medic = [m \in MedicIds |-> IdlePass]
  /\ clock = 0
  /\ medic_checks = << >>
  /\ ShellIdle
  /\ InstallIdle
  /\ jobs = CronsAt(RescueWorkflow, 1, RescueJobs)
  /\ nextId = RescueJobs + 1
  /\ active = [w \in CronWorkflows |-> 0]
  /\ procs = [p \in CronProcs |-> IdleProc]

\* runMedicCheck up to the answer of listCronJobs: the findings of
\* runSyncChecks (no run is running for restoreActiveRunCrons when a resume
\* is found; a running run has its jobs)
RescueCheck(m) ==
  /\ medic[m].pc = "idle"
  /\ medic' = [medic EXCEPT ![m] =
       [IdlePass EXCEPT !.pc = "list_crons", !.findings = runSyncChecks]]
  /\ UNCHANGED << installVars, cronVars, shellVars, logVars, wf, run, steps, stories, clock >>

\* the answer of listCronJobs: the findings of checkOrphanedCrons come after
\* those of runSyncChecks
RescueOrphans(m, ok) ==
  /\ medic[m].pc = "list_crons"
  /\ medic' = [medic EXCEPT ![m] =
       [@ EXCEPT !.pc = "remediate",
                 !.findings = @ \o (IF ok THEN orphanedCronFindings(jobs) ELSE << >>)]]
  /\ UNCHANGED << installVars, cronVars, shellVars, logVars, wf, run, steps, stories, clock >>

\* resume_run with its call of ensureWorkflowCrons: the jobs are left alone
\* when they are listed, and setupAgentCrons creates the first created of
\* them again when the list fails or is empty
RescueResumeRun(m, ok, listed, created) ==
  /\ HasFinding(m, "resume_run")
  /\ RemediateResumeRun(Head(medic[m].findings), ok)
  /\ Pop(m, ok)
  /\ IF ok /\ ~(listed /\ WorkflowJobs(jobs) # {})
     THEN /\ jobs' = jobs \cup CronsAt(RescueWorkflow, nextId, created)
          /\ nextId' = nextId + created
     ELSE /\ created = 0
          /\ UNCHANGED << jobs, nextId >>
  /\ UNCHANGED << installVars, shellVars, logVars, wf, clock, active, procs >>

\* fail_run with its call of teardownWorkflowCronsIfIdle: the jobs of the
\* workflow the gateway deletes
RescueFailRun(m, ok, deleted) ==
  /\ HasFinding(m, "fail_run")
  /\ RemediateFailRun(Head(medic[m].findings), ok)
  /\ Pop(m, ok)
  /\ deleted \subseteq WorkflowJobs(jobs)
  /\ ~ok => deleted = {}
  /\ jobs' = jobs \ deleted
  /\ UNCHANGED << installVars, shellVars, logVars, wf, clock, nextId, active, procs >>

\* teardownWorkflowCronsIfIdle without its count of the running runs
RescueTeardownBlind(m) ==
  /\ HasFinding(m, "teardown_crons")
  /\ medic' = [medic EXCEPT ![m] = [@ EXCEPT !.pc = "teardown_list"]]
  /\ UNCHANGED << installVars, cronVars, shellVars, logVars, wf, run, steps, stories, clock >>

\* teardown_crons, teardownWorkflowCronsIfIdle up to its count: with a
\* running run it returns, and the remediation has succeeded
RescueTeardownCount(m) ==
  /\ HasFinding(m, "teardown_crons")
  /\ IF countRunningRuns > 0
     THEN Pop(m, TRUE)
     ELSE medic' = [medic EXCEPT ![m] = [@ EXCEPT !.pc = "teardown_list"]]
  /\ UNCHANGED << installVars, cronVars, shellVars, logVars, wf, run, steps, stories, clock >>

\* the answer of listCronJobs and the deleteCronJob calls for the jobs of
\* the workflow; a failed list ends the teardown, a failed delete leaves its
\* job, and teardown_crons returns true all the same
RescueTeardownDelete(m, deleted) ==
  /\ medic[m].pc = "teardown_list"
  /\ deleted \subseteq WorkflowJobs(jobs)
  /\ jobs' = jobs \ deleted
  /\ medic' = [medic EXCEPT ![m] =
       [@ EXCEPT !.pc = "remediate",
                 !.findings = Tail(@),
                 !.details = Append(@, [Head(medic[m].findings) EXCEPT !.remediated = TRUE]),
                 !.actionsTaken = @ + 1]]
  /\ UNCHANGED << installVars, shellVars, logVars, wf, run, steps, stories, clock, nextId, active, procs >>

NextRescue ==
  \/ LoopEngine
  \/ StepEngine
  \/ RescueCheck("m1")
  \/ \E ok \in BOOLEAN : RescueOrphans("m1", ok)
  \/ \E ok, listed \in BOOLEAN, created \in 0 .. RescueJobs :
       RescueResumeRun("m1", ok, listed, created)
  \/ \E ok \in BOOLEAN, deleted \in SUBSET jobs : RescueFailRun("m1", ok, deleted)
  \/ RescueTeardownCount("m1")
  \/ \E deleted \in SUBSET jobs : RescueTeardownDelete("m1", deleted)
  \/ MedicFinish("m1")

SpecRescue == InitRescue /\ [][NextRescue]_vars

\* the pass of m has resumed the run
PassResumed(m) ==
  \E i \in 1 .. Len(medic[m].details) :
    medic[m].details[i].action = "resume_run" /\ medic[m].details[i].remediated

\* the pass of m is in its teardown_crons remediation
InTeardown(m) ==
  /\ medic[m].pc \in { "remediate", "teardown_list" }
  /\ medic[m].findings # << >>
  /\ Head(medic[m].findings).action = "teardown_crons"

\* C38 as stated: a pass that has resumed the failed run of the workflow and
\* holds an orphaned_crons finding for it deletes none of the jobs of the
\* workflow in its teardown_crons remediation.
C38_TeardownSparesWorkflow ==
  [][\A m \in MedicIds :
       (PassResumed(m) /\ InTeardown(m) /\ medic'[m] # medic[m])
         => WorkflowJobs(jobs) \subseteq jobs']_vars

\* C38: a pass that has resumed the failed run of the workflow and holds an
\* orphaned_crons finding for it deletes none of the jobs of the workflow in
\* its teardown_crons remediation while the resumed run is running; once the
\* run has failed or finished again, the re-check lets the teardown delete.
C38_TeardownSparesRunning ==
  [][\A m \in MedicIds :
       (PassResumed(m) /\ InTeardown(m) /\ medic'[m] # medic[m]
          /\ run.status = "running")
         => WorkflowJobs(jobs) \subseteq jobs']_vars

C38_Witness ==
  /\ run.status = "running"
  /\ PassResumed("m1")
  /\ \E i \in 1 .. Len(medic["m1"].details) :
       medic["m1"].details[i].action = "teardown_crons" /\ medic["m1"].details[i].remediated
  /\ CronsAt(RescueWorkflow, 1, RescueJobs) \subseteq jobs

\* setupAgentCrons of process p takes its last step and returns to its
\* caller without throwing: no call is left, and the call answered was not
\* a rejected one whose result is tested
SetupReturnsNormally(p) ==
  /\ procs[p].pc = "setup"
  /\ procs'[p] # procs[p]
  /\ Tail(procs[p].todo) = << >>
  /\ ~(Head(procs[p].todo).checked /\ jobs' = jobs)

\* C39: setupAgentCrons returns normally only if every cron job of the
\* workflow, the -2 and -3 shards of the parallel roles included, was
\* created: no call before the last was rejected, and the last created its
\* job.
C39_SetupAllOrError ==
  [][\A p \in CronProcs :
       SetupReturnsNormally(p) => (procs[p].clean /\ jobs' # jobs)]_vars

=============================================================================
